---- MODULE Spec2Model ----
(***************************************************************************)
(* A model of the data core of mapping_infra:                              *)
(*   - the streaming JSON array parser (streamingJsonParser.ts),           *)
(*   - ingestion and validation of facility records (CSV and EIA feeds),   *)
(*   - aggregation of facilities by name/coordinates/country,              *)
(*   - the compressed localStorage cache (cache.ts) and its TTL readers,   *)
(*   - the proximity test of a point against lines and the line index.     *)
(* Text is a sequence of one-character strings.  Each component has its    *)
(* own specification; the variables of the other components stay idle.    *)
(***************************************************************************)
EXTENDS Integers, Sequences, FiniteSets, TLC

VARIABLES
    \* ---- streaming parser (parseJsonArrayStream) ----
    ppc,          \* "idle" | "reading" | "complete" | "error" | "unparsed"
    doc,          \* the whole text the response body will deliver
    rest,         \* the part of doc not yet read from the stream
    buffer,       \* let buffer
    itemIndex,    \* let itemIndex
    scan,         \* [inArray, bracketCount, inString, escapeNext]
    delivered,    \* the items passed to onItem, in call order
    nComplete,    \* number of onComplete calls
    completeArg,  \* argument of the last onComplete call
    nError,       \* number of onError calls
    nReads,       \* number of reader.read() calls that returned a chunk
    marks,        \* the item boundaries found so far, as positions in doc
    threw,        \* the indices at which the item callback threw
    itemCount,    \* let itemCount of loadLargeJsonData
    promise,      \* the promise the caller awaits: [state, value]
    \* ---- aggregation (aggregatePowerPlants) ----
    apc,          \* "build" | "once" | "twice"
    heap,         \* the PowerPlant objects, by reference (1..Len(heap))
    plants,       \* the input list: references into heap
    heap0,        \* the objects as they were when aggregatePowerPlants was called
    result1,      \* references returned by aggregatePowerPlants(plants)
    out1,         \* the facilities of result1 as returned
    result2,      \* references returned by aggregatePowerPlants(result1)
    out2,         \* the facilities of result2 as returned
    \* ---- ingestion (parsePowerPlantCSV, parseEIAData, transformEIADataToPowerPlants) ----
    ipc,          \* "idle" | "csv" | "eia" | "eia3": which parse function ran
    sourcePayload, \* the source payload handed to it
    ingested,     \* the facilities it returned
    \* ---- compressed cache (CacheManager, CableCache, EIA cache functions) ----
    cpc,          \* "idle" | "returned": a cache call has just returned
    store,        \* localStorage: storage key -> [present, text]
    now,          \* Date.now()
    nTicks,       \* number of clock advances so far
    call,         \* the call that has just returned: operation, arguments, result
    written,      \* per cache key: the value and time of the last write still in force
    \* ---- loaders (loadAndProcessAllPowerPlants, loadEIADataEfficiently) ----
    lpc,          \* "idle" | "all" | "eia": which loader has just settled
    sources,      \* what the network answered to the loader's requests
    loaded,       \* the promise the loader returned, settled: [state, plants, cached];
                  \* plants is a list of facilities after loadAndProcessAllPowerPlants
                  \* and a JavaScript value after loadEIADataEfficiently
    nFetches,     \* number of fetch() calls the loader made
    \* ---- proximity (isPointNearLine, createLineIndex, queryLineIndex) ----
    gpc,          \* "idle" | "tested" | "indexed" | "filtered"
    allLines,     \* the lines createLineIndex was given
    lineIndex,    \* the RBush index: the items inserted, in insertion order
    nearby        \* the proximity test that has just returned

parserVars == <<ppc, doc, rest, buffer, itemIndex, scan, delivered,
                nComplete, completeArg, nError, nReads,
                marks, threw, itemCount, promise>>

aggVars == <<apc, heap, plants, heap0, result1, out1, result2, out2>>

ingestVars == <<ipc, sourcePayload, ingested>>

cacheVars == <<cpc, store, now, nTicks, call, written>>

loaderVars == <<lpc, sources, loaded, nFetches>>

geoVars == <<gpc, allLines, lineIndex, nearby>>

notParserVars == <<aggVars, ingestVars, cacheVars, loaderVars, geoVars>>
notAggVars == <<parserVars, ingestVars, cacheVars, loaderVars, geoVars>>
notIngestVars == <<parserVars, aggVars, cacheVars, loaderVars, geoVars>>
notCacheVars == <<parserVars, aggVars, ingestVars, loaderVars, geoVars>>
notLoaderVars == <<parserVars, aggVars, ingestVars, geoVars>>
notGeoVars == <<parserVars, aggVars, ingestVars, cacheVars, loaderVars>>

vars == <<ppc, doc, rest, buffer, itemIndex, scan, delivered,
          nComplete, completeArg, nError, nReads,
          marks, threw, itemCount, promise,
          apc, heap, plants, heap0, result1, out1, result2, out2,
          ipc, sourcePayload, ingested,
          cpc, store, now, nTicks, call, written,
          lpc, sources, loaded, nFetches,
          gpc, allLines, lineIndex, nearby>>

(***************************************************************************)
(* Bounds of the model.                                                    *)
(***************************************************************************)
MaxItems == 2      \* elements in a streamed array
MaxChunks == 2     \* chunks a response body is delivered in
MaxPlants == 3     \* facilities in a list handed to aggregatePowerPlants
MaxRows == 1       \* data rows of a CSV text, items of a feed
MaxTicks == 2      \* advances of the clock
MaxLines == 1      \* lines handed to createLineIndex
Quota == 290       \* characters localStorage holds (keys and values)
CompressBlock == 32  \* the longest text compressed in one piece

(***************************************************************************)
(* Text helpers.                                                           *)
(***************************************************************************)
\* Op applied to the value of v: v is evaluated once, where it is named
With(v, Op(_)) == CHOOSE r \in { Op(x) : x \in {v} } : TRUE

\* String.prototype.substring(from) with a 0-based index
SubstringFrom(s, from) == SubSeq(s, from + 1, Len(s))

\* String.prototype.substring(0, to) with a 0-based exclusive end
SubstringTo(s, to) == SubSeq(s, 1, to)

DecimalDigits == <<"0", "1", "2", "3", "4", "5", "6", "7", "8", "9">>

\* Number.prototype.toString of a natural number
RECURSIVE NumberToText(_)
NumberToText(n) ==
    IF n < 10 THEN <<DecimalDigits[n + 1]>>
    ELSE NumberToText(n \div 10) \o <<DecimalDigits[(n % 10) + 1]>>

(***************************************************************************)
(* JSON.parse, as a recursive-descent recogniser over the model alphabet.  *)
(* Every XxxEnd operator returns the 1-based index just after the          *)
(* construct that starts at i, or 0 when the text is not valid JSON there. *)
(***************************************************************************)
JsonWhitespace == {" "}
JsonDigits == {"0", "1", "2", "3", "4", "5", "6", "7", "8", "9"}
JsonEscapable == {"\"", "\\", "n"}

RECURSIVE SkipWs(_, _)
SkipWs(s, i) ==
    IF i <= Len(s) /\ s[i] \in JsonWhitespace THEN SkipWs(s, i + 1) ELSE i

RECURSIVE JsonStringEnd(_, _)
JsonStringEnd(s, i) ==
    IF i > Len(s) THEN 0
    ELSE IF s[i] = "\"" THEN i + 1
    ELSE IF s[i] = "\\"
         THEN IF i + 1 <= Len(s) /\ s[i + 1] \in JsonEscapable
              THEN JsonStringEnd(s, i + 2)
              ELSE 0
    ELSE JsonStringEnd(s, i + 1)

RECURSIVE JsonNumberEnd(_, _)
JsonNumberEnd(s, i) ==
    IF i <= Len(s) /\ s[i] \in JsonDigits THEN JsonNumberEnd(s, i + 1) ELSE i

\* true, false, null
JsonLiterals == { <<"t", "r", "u", "e">>, <<"f", "a", "l", "s", "e">>,
                  <<"n", "u", "l", "l">> }

JsonLiteralEnd(s, i) ==
    LET Here(w) == i + Len(w) - 1 <= Len(s) /\ SubSeq(s, i, i + Len(w) - 1) = w IN
    IF \E w \in JsonLiterals : Here(w)
    THEN i + Len(CHOOSE w \in JsonLiterals : Here(w))
    ELSE 0

RECURSIVE JsonValueEnd(_, _), JsonMembersEnd(_, _), JsonElementsEnd(_, _)
JsonValueEnd(s, i0) ==
    LET i == SkipWs(s, i0) IN
    IF i > Len(s) THEN 0
    ELSE IF s[i] = "{"
         THEN LET j == SkipWs(s, i + 1) IN
              IF j <= Len(s) /\ s[j] = "}" THEN j + 1 ELSE JsonMembersEnd(s, j)
    ELSE IF s[i] = "["
         THEN LET j == SkipWs(s, i + 1) IN
              IF j <= Len(s) /\ s[j] = "]" THEN j + 1 ELSE JsonElementsEnd(s, j)
    ELSE IF s[i] = "\"" THEN JsonStringEnd(s, i + 1)
    ELSE IF s[i] \in JsonDigits THEN JsonNumberEnd(s, i)
    ELSE JsonLiteralEnd(s, i)

\* "key" : value ( , "key" : value )* }
JsonMembersEnd(s, i0) ==
    LET i == SkipWs(s, i0) IN
    IF i > Len(s) \/ s[i] # "\"" THEN 0
    ELSE LET k == JsonStringEnd(s, i + 1) IN
         IF k = 0 THEN 0
         ELSE LET c == SkipWs(s, k) IN
              IF c > Len(s) \/ s[c] # ":" THEN 0
              ELSE LET v == JsonValueEnd(s, c + 1) IN
                   IF v = 0 THEN 0
                   ELSE LET d == SkipWs(s, v) IN
                        IF d > Len(s) THEN 0
                        ELSE IF s[d] = "}" THEN d + 1
                        ELSE IF s[d] = "," THEN JsonMembersEnd(s, d + 1)
                        ELSE 0

\* value ( , value )* ]
JsonElementsEnd(s, i0) ==
    LET v == JsonValueEnd(s, i0) IN
    IF v = 0 THEN 0
    ELSE LET d == SkipWs(s, v) IN
         IF d > Len(s) THEN 0
         ELSE IF s[d] = "]" THEN d + 1
         ELSE IF s[d] = "," THEN JsonElementsEnd(s, d + 1)
         ELSE 0

\* TRUE iff JSON.parse(s) returns instead of throwing a SyntaxError
JsonParses(s) ==
    LET e == JsonValueEnd(s, 1) IN e # 0 /\ SkipWs(s, e) = Len(s) + 1

\* The value JSON.parse(s) returns, represented by the text of s with the
\* insignificant whitespace (outside string literals) removed.
RECURSIVE JsonCanon(_, _, _, _)
JsonCanon(s, i, inStr, esc) ==
    IF i > Len(s) THEN <<>>
    ELSE IF esc THEN <<s[i]>> \o JsonCanon(s, i + 1, inStr, FALSE)
    ELSE IF inStr /\ s[i] = "\\" THEN <<s[i]>> \o JsonCanon(s, i + 1, inStr, TRUE)
    ELSE IF s[i] = "\"" THEN <<s[i]>> \o JsonCanon(s, i + 1, ~inStr, FALSE)
    ELSE IF ~inStr /\ s[i] \in JsonWhitespace THEN JsonCanon(s, i + 1, inStr, FALSE)
    ELSE <<s[i]>> \o JsonCanon(s, i + 1, inStr, FALSE)

JsonValue(s) == JsonCanon(s, 1, FALSE, FALSE)

\* The elements of the top-level array of a text that parses as a whole:
\* what JSON.parse(s) yields when s is an array (response.json()).
RECURSIVE JsonArrayItems(_, _)
JsonArrayItems(s, i0) ==
    LET v == JsonValueEnd(s, i0) IN
    IF v = 0 THEN <<>>
    ELSE LET d == SkipWs(s, v)
             item == JsonValue(SubSeq(s, i0, v - 1)) IN
         IF d <= Len(s) /\ s[d] = ","
         THEN <<item>> \o JsonArrayItems(s, d + 1)
         ELSE <<item>>

JsonIsArray(s) ==
    JsonParses(s) /\ s[SkipWs(s, 1)] = "["

WholeBufferParse(s) ==
    LET i == SkipWs(s, 1)
        j == SkipWs(s, i + 1) IN
    IF s[j] = "]" THEN <<>> ELSE JsonArrayItems(s, j)

(***************************************************************************)
(* parseJsonArrayStream: the character scan (the for loop), whose state    *)
(* (inArray, bracketCount, inString, escapeNext) lives across scans and    *)
(* across chunks, and the buffer loop around it.                           *)
(***************************************************************************)
ScanInit ==
    [inArray |-> FALSE, bracketCount |-> 0, inString |-> FALSE, escapeNext |-> FALSE]

\* The for loop from 1-based position i.  Result: the scan state when the
\* loop is left, itemEnd (the code's 0-based value, -1 when none) and
\* arrayEnd (the closing bracket of the array was met: the function returns).
RECURSIVE ScanBuffer(_, _, _)
ScanBuffer(buf, i, st) ==
    IF i > Len(buf)
    THEN [st |-> st, itemEnd |-> -1, arrayEnd |-> FALSE]
    ELSE LET char == buf[i] IN
         IF st.escapeNext
         THEN ScanBuffer(buf, i + 1, [st EXCEPT !.escapeNext = FALSE])
         ELSE IF char = "\\" /\ st.inString
         THEN ScanBuffer(buf, i + 1, [st EXCEPT !.escapeNext = TRUE])
         ELSE IF char = "\""
         THEN ScanBuffer(buf, i + 1, [st EXCEPT !.inString = ~st.inString])
         ELSE IF st.inString
         THEN ScanBuffer(buf, i + 1, st)
         ELSE IF char = "["
         THEN ScanBuffer(buf, i + 1,
                  [st EXCEPT !.inArray = TRUE, !.bracketCount = st.bracketCount + 1])
         ELSE IF char = "]"
         THEN LET st2 == [st EXCEPT !.bracketCount = st.bracketCount - 1] IN
              IF st2.bracketCount = 0 /\ st2.inArray
              THEN [st |-> st2, itemEnd |-> -1, arrayEnd |-> TRUE]
              ELSE ScanBuffer(buf, i + 1, st2)
         ELSE IF char = "{"
         THEN ScanBuffer(buf, i + 1, [st EXCEPT !.bracketCount = st.bracketCount + 1])
         ELSE IF char = "}"
         THEN LET st2 == [st EXCEPT !.bracketCount = st.bracketCount - 1] IN
              IF st2.bracketCount = 1 /\ st2.inArray
              THEN [st |-> st2, itemEnd |-> i, arrayEnd |-> FALSE]
              ELSE ScanBuffer(buf, i + 1, st2)
         ELSE IF char = "," /\ st.bracketCount = 1 /\ st.inArray
         THEN [st |-> st, itemEnd |-> i - 1, arrayEnd |-> FALSE]
         ELSE ScanBuffer(buf, i + 1, st)

\* while (buffer.length > 0) { scan; deliver or skip one item | wait | return }
\* Result: buffer, scan state, itemIndex, delivered items, whether the
\* function returned at the end of the array, and for every item boundary
\* found (itemEnd > 0) the length of the buffer it was found in, itemEnd and
\* whether the item text parsed.
RECURSIVE ProcessBuffer(_, _, _, _, _)
ProcessBuffer(buf, st, idx, items, found) ==
    IF Len(buf) = 0
    THEN [buffer |-> buf, scan |-> st, itemIndex |-> idx, delivered |-> items,
          returned |-> FALSE, found |-> found]
    ELSE LET r == ScanBuffer(buf, 1, st) IN
         IF r.arrayEnd
         THEN [buffer |-> buf, scan |-> r.st, itemIndex |-> idx,
               delivered |-> items, returned |-> TRUE, found |-> found]
         ELSE IF r.itemEnd > 0
         THEN LET itemStr == SubstringTo(buf, r.itemEnd)
                  nextBuf == SubstringFrom(buf, r.itemEnd + 1)
                  parsed == JsonParses(itemStr)
                  here == [len |-> Len(buf), itemEnd |-> r.itemEnd, parsed |-> parsed] IN
              IF parsed
              THEN ProcessBuffer(nextBuf, r.st, idx + 1,
                                 Append(items, JsonValue(itemStr)), Append(found, here))
              ELSE ProcessBuffer(nextBuf, r.st, idx, items, Append(found, here))
         ELSE [buffer |-> buf, scan |-> r.st, itemIndex |-> idx,
               delivered |-> items, returned |-> FALSE, found |-> found]

(***************************************************************************)
(* The documents a response body may carry: arrays of up to MaxItems       *)
(* elements separated by commas.  The elements cover an empty object, a    *)
(* flat object, a string value holding a comma and a brace, a nested       *)
(* object, an element preceded by a space and an element that is not JSON. *)
(***************************************************************************)
Elements ==
    { <<"{", "}">>,
      <<"{", "\"", "a", "\"", ":", "1", "}">>,
      <<"{", "\"", "a", "\"", ":", "\"", ",", "}", "\"", "}">>,
      <<"{", "\"", "a", "\"", ":", "{", "}", "}">>,
      <<" ", "{", "}">>,
      <<"{", "a", "}">> }

RECURSIVE ArrayBodies(_)
ArrayBodies(n) ==
    IF n = 0 THEN { <<>> }
    ELSE IF n = 1 THEN { <<>> } \cup Elements
    ELSE LET shorter == ArrayBodies(n - 1) IN
         shorter \cup { b \o <<",">> \o e : b \in shorter \ { <<>> }, e \in Elements }

Docs == { <<"[">> \o b \o <<"]">> : b \in ArrayBodies(MaxItems) }

(***************************************************************************)
(* Actions of the streaming parser.                                        *)
(***************************************************************************)
(***************************************************************************)
(* The state of the cache: storage keys, stored items, values, entries.    *)
(***************************************************************************)
CACHE_PREFIX == <<"m", "a", "p", "p", "i", "n", "g", "_", "i", "n", "f", "r", "a", "_", "c", "a", "c", "h", "e", "_">>
DEFAULT_VERSION == <<"v", "1">>
testKey == <<"_", "_", "s", "t", "o", "r", "a", "g", "e", "_", "t", "e", "s", "t", "_", "_">>
CACHE_KEY == <<"w", "f", "s", "-", "c", "a", "b", "l", "e", "-", "d", "a", "t", "a">>
EIA_DATA_CACHE_KEY == <<"e", "i", "a", "-", "p", "o", "w", "e", "r", "-", "p", "l", "a", "n", "t", "s", "-", "v", "1">>
CACHE_DURATION == 24 * 60 * 60 * 1000

\* the keys the callers of CacheManager use, and the keys of localStorage
CacheKeys == {CACHE_KEY, EIA_DATA_CACHE_KEY}

\* the keys a caller of CacheManager may pass: those the program uses and
\* the empty string
AnyCacheKeys == CacheKeys \cup { <<>> }

\* a key of localStorage that other code of the page uses
otherKey == <<"t", "h", "e", "m", "e">>

StorageKeys == {CACHE_PREFIX \o k : k \in AnyCacheKeys} \cup {testKey, otherKey}

\* localStorage.getItem(k) of a key never set is null
Absent == [present |-> FALSE, text |-> <<>>]
Stored(text) == [present |-> TRUE, text |-> text]

\* a JavaScript value: null, an array of strings, or any other JSON value
\* (held as its canonical text)
NullValue == [kind |-> "null", items |-> <<>>, text |-> <<>>]
ArrayValue(items) == [kind |-> "array", items |-> items, text |-> <<>>]
OtherValue(text) == [kind |-> "json", items |-> <<>>, text |-> text]

\* a CacheEntry, or null
NullEntry ==
    [isNull |-> TRUE,
     metadata |-> [timestamp |-> 0, version |-> <<>>, size |-> 0,
                   compressedSize |-> 0, compressed |-> FALSE],
     data |-> <<>>]

NoCall ==
    [op |-> "none", key |-> <<>>, data |-> NullValue, maxAgeMs |-> 0,
     ok |-> FALSE, value |-> NullValue, entry |-> NullEntry,
     before |-> [k \in StorageKeys |-> Absent]]

NoWrite == [ok |-> FALSE, value |-> NullValue, time |-> 0]

\* the promise of a load: "none" until a load starts, then "pending",
\* then "resolved" with a value or "rejected"
NoAnswer == [kind |-> "none", ok |-> FALSE, body |-> <<>>]
NoStream == [kind |-> "none", items |-> <<>>]
NoSources == [large |-> NoAnswer, renewable |-> NoAnswer, eia |-> NoAnswer,
              withEIA |-> FALSE, stream |-> NoStream]
NotLoaded == [state |-> "none", plants |-> <<>>, cached |-> FALSE]
NoTest == [op |-> "none", approximate |-> FALSE, point |-> <<0, 0>>, line |-> <<>>,
           maxDistance |-> 0, near |-> FALSE, evaluated |-> 0, candidates |-> <<>>]
NoPromise == [state |-> "none", value |-> 0]
Pending == [state |-> "pending", value |-> 0]
Resolved(value) == [state |-> "resolved", value |-> value]
Rejected == [state |-> "rejected", value |-> 0]

(***************************************************************************)
(* The initial state: no parse started, no facility list built, an empty   *)
(* localStorage at time 0.                                                 *)
(***************************************************************************)
Init ==
    /\ ppc = "idle" /\ doc = <<>> /\ rest = <<>> /\ buffer = <<>>
    /\ itemIndex = 0 /\ scan = ScanInit /\ delivered = <<>>
    /\ nComplete = 0 /\ completeArg = -1 /\ nError = 0 /\ nReads = 0
    /\ marks = <<>> /\ threw = {} /\ itemCount = 0 /\ promise = NoPromise
    /\ apc = "build" /\ heap = <<>> /\ plants = <<>> /\ heap0 = <<>>
    /\ result1 = <<>> /\ out1 = <<>> /\ result2 = <<>> /\ out2 = <<>>
    /\ ipc = "idle" /\ ingested = <<>>
    /\ sourcePayload = [text |-> <<>>, type |-> "none", canadaOnly |-> FALSE, items |-> <<>>]
    /\ cpc = "idle" /\ store = [k \in StorageKeys |-> Absent]
    /\ now = 0 /\ nTicks = 0 /\ call = NoCall
    /\ written = [k \in AnyCacheKeys |-> NoWrite]
    /\ lpc = "idle" /\ sources = NoSources /\ loaded = NotLoaded /\ nFetches = 0
    /\ gpc = "idle" /\ allLines = <<>> /\ lineIndex = <<>> /\ nearby = NoTest

\* loadLargeJsonData(url, processor) has fetched an ok response with a body
\* that will deliver d, and calls parseJsonArrayStream with its callbacks
StartParse(d) ==
    /\ ppc = "idle"
    /\ ppc' = "reading"
    /\ doc' = d /\ rest' = d
    /\ promise' = Pending
    /\ UNCHANGED <<buffer, itemIndex, scan, delivered, nComplete, completeArg,
                   nError, nReads, marks, threw, itemCount>>
    /\ UNCHANGED notParserVars

\* loadLargeJsonData: fetch rejects, or the response is not ok or has no
\* body: it throws before parseJsonArrayStream is called
LoadFails ==
    /\ ppc = "idle"
    /\ ppc' = "unparsed"
    /\ promise' = Rejected
    /\ UNCHANGED <<doc, rest, buffer, itemIndex, scan, delivered, nComplete,
                   completeArg, nError, nReads, marks, threw, itemCount>>
    /\ UNCHANGED notParserVars

\* a mutation: the return after onError is missing, so getReader() on the
\* null body throws and the catch block calls onError a second time
NoBodyFallsThrough ==
    /\ ppc = "idle"
    /\ ppc' = "error"
    /\ nError' = nError + 2
    /\ promise' = Rejected
    /\ UNCHANGED <<doc, rest, buffer, itemIndex, scan, delivered, nComplete,
                   completeArg, nReads, marks, threw, itemCount>>
    /\ UNCHANGED notParserVars

\* parseJsonArrayStream on a response without a body:
\* if (!response.body) { onError(...); return; }
NoBody ==
    /\ ppc = "idle"
    /\ ppc' = "error"
    /\ nError' = nError + 1
    /\ promise' = Rejected
    /\ UNCHANGED <<doc, rest, buffer, itemIndex, scan, delivered, nComplete,
                   completeArg, nReads, marks, threw, itemCount>>
    /\ UNCHANGED notParserVars

\* the item boundaries of one buffer loop as positions in doc, of which
\* `received` characters have been read: the item text is doc[start+1..end]
MarksOf(found, received) ==
    [k \in 1..Len(found) |->
        [start |-> received - found[k].len,
         end |-> received - found[k].len + found[k].itemEnd,
         parsed |-> found[k].parsed]]

\* (item, index) => { processor(item, index); itemCount = index + 1; }
\* over the calls of one buffer loop, the processor throwing at `throws`
ItemCountAfter(count, calls, throws) ==
    LET returned == calls \ throws IN
    IF returned = {} THEN count
    ELSE (CHOOSE i \in returned : \A j \in returned : j <= i) + 1

\* reader.read() returns a chunk of n characters; the buffer loop runs
ReadChunk(n) ==
    /\ ppc = "reading"
    /\ n \in 1..Len(rest)
    /\ nReads + 1 < MaxChunks \/ n = Len(rest)
    /\ \E r \in {ProcessBuffer(buffer \o SubSeq(rest, 1, n), scan, itemIndex,
                                delivered, <<>>)} :
       \E throws \in SUBSET (itemIndex .. r.itemIndex - 1) :
       /\ rest' = SubSeq(rest, n + 1, Len(rest))
       /\ buffer' = IF r.returned THEN buffer \o SubSeq(rest, 1, n) ELSE r.buffer
       /\ scan' = r.scan
       /\ itemIndex' = r.itemIndex
       /\ delivered' = r.delivered
       /\ nReads' = nReads + 1
       /\ marks' = marks \o MarksOf(r.found, Len(doc) - Len(rest) + n)
       /\ threw' = threw \cup throws
       /\ itemCount' = ItemCountAfter(itemCount, itemIndex .. r.itemIndex - 1, throws)
       /\ IF r.returned
          THEN /\ ppc' = "complete"
               /\ nComplete' = nComplete + 1
               /\ completeArg' = r.itemIndex
               /\ promise' = Resolved(itemCount')
          ELSE UNCHANGED <<ppc, nComplete, completeArg, promise>>
    /\ UNCHANGED <<doc, nError>>
    /\ UNCHANGED notParserVars

\* the body ends here (the connection closes): the rest is never delivered
BodyEndsEarly ==
    /\ ppc = "reading"
    /\ rest # <<>>
    /\ doc' = SubSeq(doc, 1, Len(doc) - Len(rest))
    /\ rest' = <<>>
    /\ UNCHANGED <<ppc, buffer, itemIndex, scan, delivered, nComplete, completeArg,
                   nError, nReads, marks, threw, itemCount, promise>>
    /\ UNCHANGED notParserVars

\* a mutation: at the end of the stream the count includes the items that
\* were skipped
ReadDoneCountingSkipped ==
    /\ ppc = "reading"
    /\ rest = <<>>
    /\ ppc' = "complete"
    /\ nComplete' = nComplete + 1
    /\ completeArg' = Len(marks)
    /\ promise' = Resolved(itemCount)
    /\ UNCHANGED <<doc, rest, buffer, itemIndex, scan, delivered, nError, nReads,
                   marks, threw, itemCount>>
    /\ UNCHANGED notParserVars

\* reader.read() returns done: onComplete(itemIndex); break
ReadDone ==
    /\ ppc = "reading"
    /\ rest = <<>>
    /\ ppc' = "complete"
    /\ nComplete' = nComplete + 1
    /\ completeArg' = itemIndex
    /\ promise' = Resolved(itemCount)
    /\ UNCHANGED <<doc, rest, buffer, itemIndex, scan, delivered, nError, nReads,
                   marks, threw, itemCount>>
    /\ UNCHANGED notParserVars

\* reader.read() rejects: the catch block calls onError
ReadError ==
    /\ ppc = "reading"
    /\ ppc' = "error"
    /\ nError' = nError + 1
    /\ promise' = Rejected
    /\ UNCHANGED <<doc, rest, buffer, itemIndex, scan, delivered, nComplete,
                   completeArg, nReads, marks, threw, itemCount>>
    /\ UNCHANGED notParserVars

NextParser ==
    \/ \E d \in Docs : StartParse(d)
    \/ LoadFails
    \/ NoBody
    \/ \E n \in 1..Len(rest) : ReadChunk(n)
    \/ BodyEndsEarly
    \/ ReadDone
    \/ ReadError

SpecParser == Init /\ [][NextParser]_vars

(***************************************************************************)
(* Facilities (PowerPlant).  Numbers are exact: output and the seasonal    *)
(* capacities are in tenths of a MW, coordinates in 1e-5 degrees, and a    *)
(* capacity factor is a fraction num/den in lowest terms.  An optional     *)
(* number is [def, ...]: def = FALSE stands for undefined or null.         *)
(***************************************************************************)
Abs(x) == IF x < 0 THEN -x ELSE x

RECURSIVE Gcd(_, _)
Gcd(a, b) == IF b = 0 THEN a ELSE Gcd(b, a % b)

\* a fraction in lowest terms with a positive denominator
Frac(n, d) ==
    LET g == Gcd(Abs(n), Abs(d))
        sgn == IF d < 0 THEN -1 ELSE 1 IN
    [def |-> TRUE, num |-> sgn * (n \div g), den |-> sgn * (d \div g)]

NoNumber == [def |-> FALSE, num |-> 0, den |-> 1]

\* Number.prototype.toFixed(1) of a number of tenths, then " MW"
OutputDisplay(output) ==
    [neg |-> output < 0, int |-> Abs(output) \div 10, frac |-> Abs(output) % 10,
     unit |-> "MW"]

\* Number.prototype.toFixed(4) of a coordinate in 1e-5 degrees: a minus
\* sign for a negative number, the magnitude rounded half away from zero to
\* 1e-4 degrees, as integer digits, a point and four decimals
\* ("-0.0000" and "0.0000" are different texts).
ToFixed4(x) ==
    LET mag == (Abs(x) + 5) \div 10
        frac == mag % 10000 IN
    (IF x < 0 THEN <<"-">> ELSE <<>>)
    \o NumberToText(mag \div 10000)
    \o <<".", DecimalDigits[(frac \div 1000) + 1], DecimalDigits[((frac \div 100) % 10) + 1],
         DecimalDigits[((frac \div 10) % 10) + 1], DecimalDigits[(frac % 10) + 1]>>

\* String.prototype.toLowerCase over the letters of the model
LowerOf(c) ==
    IF c = "A" THEN "a" ELSE IF c = "B" THEN "b" ELSE c

ToLowerCase(str) == [i \in 1..Len(str) |-> LowerOf(str[i])]

\* the key template `${name.toLowerCase()}-${lon.toFixed(4)}-${lat.toFixed(4)}-${country}`
AggregationKey(plant) ==
    ToLowerCase(plant.name) \o <<"-">> \o ToFixed4(plant.coordinates[1])
    \o <<"-">> \o ToFixed4(plant.coordinates[2]) \o <<"-">> \o <<plant.country>>

\* position of key in the Map's insertion order, 0 when absent (plantMap.has)
RECURSIVE KeyIndex(_, _, _)
KeyIndex(keys, key, i) ==
    IF i > Len(keys) THEN 0
    ELSE IF keys[i] = key THEN i
    ELSE KeyIndex(keys, key, i + 1)

\* x || 0 for an optional number of tenths
OrZero(n) == IF n.def THEN n.num ELSE 0

\* if (plant.f) existing.f = (existing.f || 0) + plant.f
AddSeasonal(existing, added) ==
    IF added.def /\ added.num # 0
    THEN [def |-> TRUE, num |-> OrZero(existing) + added.num, den |-> 1]
    ELSE existing

\* a mutation: oldOutput is read after the += (the existing facility is
\* weighted by the merged output)
MergedCapacityFactorLateWeight(existingPlant, oldOutput, plant) ==
    IF plant.capacityFactor.def /\ existingPlant.capacityFactor.def
    THEN Frac((oldOutput + plant.output) * existingPlant.capacityFactor.num
                  * plant.capacityFactor.den
                + plant.output * plant.capacityFactor.num * existingPlant.capacityFactor.den,
              existingPlant.capacityFactor.den * plant.capacityFactor.den
                * (oldOutput + plant.output))
    ELSE IF plant.capacityFactor.def THEN plant.capacityFactor
    ELSE existingPlant.capacityFactor

\* the capacity factor after a merge: weighted by the outputs before it
MergedCapacityFactor(existingPlant, oldOutput, plant) ==
    IF plant.capacityFactor.def /\ existingPlant.capacityFactor.def
    THEN Frac(oldOutput * existingPlant.capacityFactor.num * plant.capacityFactor.den
                + plant.output * plant.capacityFactor.num * existingPlant.capacityFactor.den,
              existingPlant.capacityFactor.den * plant.capacityFactor.den
                * (oldOutput + plant.output))
    ELSE IF plant.capacityFactor.def THEN plant.capacityFactor
    ELSE existingPlant.capacityFactor

\* MergeInto with the output assigned instead of added (= for +=)
MergeIntoOverwrite(existingPlant, plant) ==
    [existingPlant EXCEPT
        !.output = plant.output,
        !.outputDisplay = OutputDisplay(plant.output)]

\* the branch plantMap.has(key): existingPlant is updated in place
MergeInto(existingPlant, plant) ==
    LET oldOutput == existingPlant.output
        newOutput == existingPlant.output + plant.output IN
    [existingPlant EXCEPT
        !.output = newOutput,
        !.outputDisplay = OutputDisplay(newOutput),
        !.netSummerCapacity = AddSeasonal(existingPlant.netSummerCapacity,
                                          plant.netSummerCapacity),
        !.netWinterCapacity = AddSeasonal(existingPlant.netWinterCapacity,
                                          plant.netWinterCapacity),
        !.capacityFactor = MergedCapacityFactor(existingPlant, oldOutput, plant),
        !.rawData = IF existingPlant.rawData.def /\ plant.rawData.def
                    THEN [def |-> TRUE, totalCapacity |-> newOutput]
                    ELSE existingPlant.rawData]

\* AggregateStep without its else: a facility seen for the first time is
\* stored and then merged as well
AggregateStepNoElse(st, ref) ==
    LET plant == st.heap[ref]
        key == AggregationKey(plant)
        at == KeyIndex(st.keys, key, 1) IN
    IF at # 0
    THEN [st EXCEPT !.heap[st.refs[at]] = MergeInto(st.heap[st.refs[at]], plant)]
    ELSE [st EXCEPT !.keys = Append(st.keys, key), !.refs = Append(st.refs, ref),
                    !.heap[ref] = MergeInto(plant, plant)]

\* One iteration of `for (const plant of plants)`.  st = [heap, keys, refs]:
\* the objects, and the Map as its keys and values in insertion order.
AggregateStep(st, ref) ==
    LET plant == st.heap[ref]
        key == AggregationKey(plant)
        at == KeyIndex(st.keys, key, 1) IN
    IF at # 0
    THEN [st EXCEPT !.heap[st.refs[at]] = MergeInto(st.heap[st.refs[at]], plant)]
    ELSE [st EXCEPT !.keys = Append(st.keys, key), !.refs = Append(st.refs, ref)]

RECURSIVE AggregateLoop(_, _, _)
AggregateLoop(st, list, i) ==
    IF i > Len(list) THEN st
    ELSE AggregateLoop(AggregateStep(st, list[i]), list, i + 1)

\* aggregatePowerPlants(list) on the objects of h: the objects afterwards
\* and the references returned (Array.from(plantMap.values()))
aggregatePowerPlants(h, list) ==
    AggregateLoop([heap |-> h, keys |-> <<>>, refs |-> <<>>], list, 1)

Deref(h, refs) == [i \in 1..Len(refs) |-> h[refs[i]]]

(***************************************************************************)
(* The facilities a caller may put into a list: a place (name,             *)
(* coordinates, country) and a payload (output, capacity factor, seasonal  *)
(* capacities).  The places hold two that differ only in letter case and   *)
(* beyond the fourth decimal, and ones that differ at the fourth decimal,  *)
(* in the country and in the name.                                         *)
(***************************************************************************)
Places ==
    { [name |-> <<"A">>, coordinates |-> <<-7500000, 4500000>>, country |-> "CA"],
      [name |-> <<"a">>, coordinates |-> <<-7500004, 4500000>>, country |-> "CA"],
      [name |-> <<"A">>, coordinates |-> <<-7500006, 4500000>>, country |-> "CA"],
      [name |-> <<"A">>, coordinates |-> <<-7500000, 4500000>>, country |-> "US"],
      [name |-> <<"B">>, coordinates |-> <<-7500000, 4500000>>, country |-> "CA"] }

Payloads ==
    { [output |-> 1000, capacityFactor |-> Frac(100, 1),
       netSummerCapacity |-> NoNumber, netWinterCapacity |-> NoNumber],
      [output |-> 500, capacityFactor |-> NoNumber,
       netSummerCapacity |-> Frac(400, 1), netWinterCapacity |-> Frac(450, 1)],
      [output |-> 255, capacityFactor |-> Frac(40, 1),
       netSummerCapacity |-> Frac(102, 1), netWinterCapacity |-> Frac(0, 1)] }

\* Places and payloads for the key itself: a name that ends in a hyphen, east
\* of the meridian, beside the same name without the hyphen west of it
HyphenPlaces ==
    { [name |-> <<"A">>, coordinates |-> <<-7500000, 4500000>>, country |-> "CA"],
      [name |-> <<"a">>, coordinates |-> <<-7500004, 4500000>>, country |-> "CA"],
      [name |-> <<"A">>, coordinates |-> <<-7500000, 4500000>>, country |-> "US"],
      [name |-> <<"A", "-">>, coordinates |-> <<7500000, 4500000>>, country |-> "CA"] }

HyphenPayloads == { p \in Payloads : p.output >= 500 }

NewPlant(id, place, payload) ==
    [id |-> id, name |-> place.name, output |-> payload.output,
     outputDisplay |-> OutputDisplay(payload.output), source |-> "other",
     coordinates |-> place.coordinates, country |-> place.country,
     capacityFactor |-> payload.capacityFactor,
     netSummerCapacity |-> payload.netSummerCapacity,
     netWinterCapacity |-> payload.netWinterCapacity,
     rawData |-> [def |-> TRUE, totalCapacity |-> payload.output]]

(***************************************************************************)
(* Actions of the aggregation.                                             *)
(***************************************************************************)
\* the caller appends one more parsed facility to the list
AddPlant(place, payload) ==
    /\ apc = "build"
    /\ Len(plants) < MaxPlants
    /\ heap' = Append(heap, NewPlant(Len(heap) + 1, place, payload))
    /\ plants' = Append(plants, Len(heap) + 1)
    /\ UNCHANGED <<apc, heap0, result1, out1, result2, out2>>
    /\ UNCHANGED notAggVars

\* const aggregatedPlants = aggregatePowerPlants(allPlants)
Aggregate ==
    /\ apc = "build"
    /\ LET r == aggregatePowerPlants(heap, plants) IN
       /\ heap0' = heap
       /\ heap' = r.heap
       /\ result1' = r.refs
       /\ out1' = Deref(r.heap, r.refs)
    /\ apc' = "once"
    /\ UNCHANGED <<plants, result2, out2>>
    /\ UNCHANGED notAggVars

\* aggregatePowerPlants applied to the list it returned
AggregateAgain ==
    /\ apc = "once"
    /\ LET r == aggregatePowerPlants(heap, result1) IN
       /\ heap' = r.heap
       /\ result2' = r.refs
       /\ out2' = Deref(r.heap, r.refs)
    /\ apc' = "twice"
    /\ UNCHANGED <<plants, heap0, result1, out1>>
    /\ UNCHANGED notAggVars

NextAggregation ==
    \/ \E place \in Places, payload \in Payloads : AddPlant(place, payload)
    \/ Aggregate
    \/ AggregateAgain

SpecAggregation == Init /\ [][NextAggregation]_vars

NextAggregationKeys ==
    \/ \E place \in HyphenPlaces, payload \in HyphenPayloads : AddPlant(place, payload)
    \/ Aggregate
    \/ AggregateAgain

SpecAggregationKeys == Init /\ [][NextAggregationKeys]_vars

(***************************************************************************)
(* Text and number conversions used by ingestion.                          *)
(***************************************************************************)
StrFacilityName == <<"F", "a", "c", "i", "l", "i", "t", "y", " ", "N", "a", "m", "e">>
StrCountry == <<"C", "o", "u", "n", "t", "r", "y">>
StrLatitude == <<"L", "a", "t", "i", "t", "u", "d", "e">>
StrLongitude == <<"L", "o", "n", "g", "i", "t", "u", "d", "e">>
StrTotalCapacity == <<"T", "o", "t", "a", "l", " ", "C", "a", "p", "a", "c", "i", "t", "y", " ", "(", "M", "W", ")">>
StrPrimaryEnergySource == <<"P", "r", "i", "m", "a", "r", "y", " ", "E", "n", "e", "r", "g", "y", " ", "S", "o", "u", "r", "c", "e">>
StrPrimaryRenewableEnergySource == <<"P", "r", "i", "m", "a", "r", "y", " ", "R", "e", "n", "e", "w", "a", "b", "l", "e", " ", "E", "n", "e", "r", "g", "y", " ", "S", "o", "u", "r", "c", "e">>
StrCanada == <<"C", "a", "n", "a", "d", "a">>
StrUnknownFacility == <<"U", "n", "k", "n", "o", "w", "n", " ", "F", "a", "c", "i", "l", "i", "t", "y">>
StrUnknownPlant == <<"U", "n", "k", "n", "o", "w", "n", " ", "P", "l", "a", "n", "t">>
StrOther == <<"O", "t", "h", "e", "r">>
StrInfinity == <<"I", "n", "f", "i", "n", "i", "t", "y">>
StrZero == <<"0">>

\* String.prototype.split(sep) for a one-character separator: the texts
\* between consecutive separators
Split(str, sep) ==
    LET seps == {i \in 1..Len(str) : str[i] = sep}
        n == Cardinality(seps) + 1
        SepAt(k) == IF k = 0 THEN 0
                    ELSE IF k = n THEN Len(str) + 1
                    ELSE CHOOSE i \in seps : Cardinality({j \in seps : j < i}) = k - 1 IN
    [k \in 1..n |-> SubSeq(str, SepAt(k - 1) + 1, SepAt(k) - 1)]

TrimWhitespace == {" ", "\t", "\r", "\n"}

TrimStart(str) ==
    LET first == CHOOSE i \in 1..(Len(str) + 1) :
                    /\ i = Len(str) + 1 \/ str[i] \notin TrimWhitespace
                    /\ \A j \in 1..(i - 1) : str[j] \in TrimWhitespace IN
    SubSeq(str, first, Len(str))

TrimEnd(str) ==
    LET last == CHOOSE i \in 0..Len(str) :
                    /\ i = 0 \/ str[i] \notin TrimWhitespace
                    /\ \A j \in (i + 1)..Len(str) : str[j] \in TrimWhitespace IN
    SubSeq(str, 1, last)

\* String.prototype.trim
Trim(str) == TrimEnd(TrimStart(str))

\* str.replace(/^"|"$/g, ''): one quote off the start and one off the end
StripQuotes(str) ==
    LET a == IF Len(str) > 0 /\ str[1] = "\"" THEN Tail(str) ELSE str IN
    IF Len(a) > 0 /\ a[Len(a)] = "\"" THEN SubSeq(a, 1, Len(a) - 1) ELSE a

\* str.replace(/,/g, '')
RemoveCommas(str) == SelectSeq(str, LAMBDA c : c # ",")

(***************************************************************************)
(* Numbers.  A number is [kind, v]: kind "num" with v its value in fixed    *)
(* point, "inf" with v = 1 or -1 for the infinities, "nan" with v = 0.     *)
(* parseFloat reads optional whitespace, a sign, then Infinity or decimal  *)
(* digits with an optional fraction; ParseFloat(str, decimals) gives the   *)
(* value in units of 10^-decimals (exponents are not in the alphabet).     *)
(***************************************************************************)
NaN == [kind |-> "nan", v |-> 0]
Num(v) == [kind |-> "num", v |-> v]
Infinite(sign) == [kind |-> "inf", v |-> sign]

IsDigit(c) == \E k \in 1..10 : DecimalDigits[k] = c
DigitValue(c) == (CHOOSE k \in 1..10 : DecimalDigits[k] = c) - 1

RECURSIVE Pow10(_)
Pow10(n) == IF n = 0 THEN 1 ELSE 10 * Pow10(n - 1)

\* the integer digits from i: [acc, count, next]
RECURSIVE ReadIntDigits(_, _, _, _)
ReadIntDigits(str, i, acc, count) ==
    IF i <= Len(str) /\ IsDigit(str[i])
    THEN ReadIntDigits(str, i + 1, acc * 10 + DigitValue(str[i]), count + 1)
    ELSE [acc |-> acc, count |-> count, next |-> i]

\* the fraction digits from i, kept to `decimals` places: [acc, count, kept]
RECURSIVE ReadFracDigits(_, _, _, _, _, _)
ReadFracDigits(str, i, acc, count, kept, decimals) ==
    IF i <= Len(str) /\ IsDigit(str[i])
    THEN IF kept < decimals
         THEN ReadFracDigits(str, i + 1, acc * 10 + DigitValue(str[i]), count + 1,
                             kept + 1, decimals)
         ELSE ReadFracDigits(str, i + 1, acc, count + 1, kept, decimals)
    ELSE [acc |-> acc, count |-> count, kept |-> kept]

StartsWithAt(str, i, word) ==
    /\ i + Len(word) - 1 <= Len(str)
    /\ SubSeq(str, i, i + Len(word) - 1) = word

ParseFloat(str0, decimals) ==
    LET str == TrimStart(str0)
        signed == Len(str) > 0 /\ str[1] \in {"-", "+"}
        sign == IF Len(str) > 0 /\ str[1] = "-" THEN -1 ELSE 1
        i == IF signed THEN 2 ELSE 1 IN
    IF StartsWithAt(str, i, StrInfinity) THEN Infinite(sign)
    ELSE LET ip == ReadIntDigits(str, i, 0, 0)
             hasDot == ip.next <= Len(str) /\ str[ip.next] = "."
             fp == IF hasDot
                   THEN ReadFracDigits(str, ip.next + 1, ip.acc, 0, 0, decimals)
                   ELSE [acc |-> ip.acc, count |-> 0, kept |-> 0] IN
         IF ip.count + fp.count = 0 THEN NaN
         ELSE Num(sign * fp.acc * Pow10(decimals - fp.kept))

IsNaN(x) == x.kind = "nan"

\* x || 0 for a number: NaN and 0 are falsy
NumberOrZero(x) == IF x.kind = "nan" THEN Num(0) ELSE x

\* x > 0 and x <= 0 (NaN compares false both ways)
GreaterThanZero(x) == (x.kind = "inf" /\ x.v > 0) \/ (x.kind = "num" /\ x.v > 0)
AtMostZero(x) == (x.kind = "inf" /\ x.v < 0) \/ (x.kind = "num" /\ x.v <= 0)

\* `${x.toFixed(1)} MW` of a number in tenths
NumberDisplay(x) ==
    IF x.kind = "num" THEN OutputDisplay(x.v)
    ELSE [neg |-> x.v < 0, int |-> 0, frac |-> 0,
          unit |-> IF x.kind = "inf" THEN "Infinity MW" ELSE "NaN MW"]

(***************************************************************************)
(* parseCsvRow and parsePowerPlantCSV.                                     *)
(***************************************************************************)
\* the loop of parseCsvRow from 1-based position i
RECURSIVE CsvRowFrom(_, _, _, _, _)
CsvRowFrom(line, i, current, inQuotes, result) ==
    IF i > Len(line) THEN Append(result, current)
    ELSE LET char == line[i] IN
         IF char = "\""
         THEN IF inQuotes /\ i + 1 <= Len(line) /\ line[i + 1] = "\""
              THEN CsvRowFrom(line, i + 2, Append(current, "\""), inQuotes, result)
              ELSE CsvRowFrom(line, i + 1, current, ~inQuotes, result)
         ELSE IF char = "," /\ ~inQuotes
         THEN CsvRowFrom(line, i + 1, <<>>, inQuotes, Append(result, current))
         ELSE CsvRowFrom(line, i + 1, Append(current, char), inQuotes, result)

parseCsvRow(line) == CsvRowFrom(line, 1, <<>>, FALSE, <<>>)

\* lines[0].split(',').map(h => h.trim().replace(/^"|"$/g, ''))
ParseHeaders(headerLine) ==
    LET cells == Split(headerLine, ",") IN
    [k \in 1..Len(cells) |-> StripQuotes(Trim(cells[k]))]

\* entry[name] after headers.forEach(...): the value of the last column with
\* that header, [def |-> FALSE] when no column has it
EntryGet(headers, row, name) ==
    LET cols == {k \in 1..Len(headers) : headers[k] = name} IN
    IF cols = {} THEN [def |-> FALSE, str |-> <<>>]
    ELSE LET k == CHOOSE c \in cols : \A o \in cols : o <= c IN
         [def |-> TRUE,
          str |-> IF Len(row[k]) > 0 THEN StripQuotes(Trim(row[k])) ELSE <<>>]

\* entry[name] || fallback
EntryOr(headers, row, name, fallback) ==
    LET e == EntryGet(headers, row, name) IN
    IF e.def /\ Len(e.str) > 0 THEN e.str ELSE fallback

SourceMap ==
    << <<<<"C", "o", "a", "l">>, "coal">>,
       <<<<"N", "a", "t", "u", "r", "a", "l", " ", "G", "a", "s">>, "gas">>,
       <<<<"N", "u", "c", "l", "e", "a", "r">>, "nuclear">>,
       <<<<"H", "y", "d", "r", "o", "e", "l", "e", "c", "t", "r", "i", "c">>, "hydro">>,
       <<<<"W", "i", "n", "d">>, "wind">>,
       <<<<"S", "o", "l", "a", "r">>, "solar">>,
       <<<<"P", "e", "t", "r", "o", "l", "e", "u", "m">>, "oil">>,
       <<<<"B", "i", "o", "m", "a", "s", "s">>, "biomass">>,
       <<<<"G", "e", "o", "t", "h", "e", "r", "m", "a", "l">>, "geothermal">>,
       <<<<"T", "i", "d", "a", "l">>, "tidal">>,
       <<<<"P", "u", "m", "p", "e", "d", "-", "S", "t", "o", "r", "a", "g", "e", " ", "H", "y", "d", "r", "o", "e", "l", "e", "c", "t", "r", "i", "c">>, "hydro">> >>

\* sourceMap[source] || 'other'
mapEnergySource(source) ==
    LET hits == {k \in 1..Len(SourceMap) : SourceMap[k][1] = source} IN
    IF hits = {} THEN "other" ELSE SourceMap[CHOOSE k \in hits : TRUE][2]

\* the facility a data row yields, and whether it is pushed;
\* canadaOnly: the variant that skips every row whose country is not CA
CsvRowToPlant(headers, line, type, i, canadaOnly) ==
    LET row == parseCsvRow(line)
        latitude == ParseFloat(EntryOr(headers, row, StrLatitude, StrZero), 5)
        longitude == ParseFloat(EntryOr(headers, row, StrLongitude, StrZero), 5)
        capacityStr == EntryOr(headers, row, StrTotalCapacity, StrZero)
        capacity == NumberOrZero(ParseFloat(RemoveCommas(capacityStr), 1))
        source == IF type = "large"
                  THEN mapEnergySource(EntryOr(headers, row, StrPrimaryEnergySource, StrOther))
                  ELSE mapEnergySource(EntryOr(headers, row,
                                               StrPrimaryRenewableEnergySource, StrOther))
        countryField == EntryGet(headers, row, StrCountry)
        country == IF countryField.def /\ countryField.str = StrCanada THEN "CA" ELSE "US"
        plant == [id |-> <<"plant", type, i>>,
                  name |-> EntryOr(headers, row, StrFacilityName, StrUnknownFacility),
                  output |-> capacity,
                  outputDisplay |-> NumberDisplay(capacity),
                  source |-> source,
                  coordinates |-> <<longitude, latitude>>,
                  country |-> country,
                  capacityFactor |-> IF canadaOnly THEN Frac(100, 1) ELSE NoNumber,
                  netSummerCapacity |-> NoNumber,
                  netWinterCapacity |-> NoNumber,
                  rawData |-> [k \in 1..Len(headers) |->
                                    IF Len(row[k]) > 0 THEN StripQuotes(Trim(row[k])) ELSE <<>>]]
        pushed == /\ Len(row) >= Len(headers)
                  /\ ~(canadaOnly /\ country # "CA")
                  /\ ~IsNaN(latitude) /\ ~IsNaN(longitude) /\ GreaterThanZero(capacity) IN
    [pushed |-> pushed, plant |-> plant]

RECURSIVE CsvRowsFrom(_, _, _, _, _)
CsvRowsFrom(headers, lines, type, i, canadaOnly) ==
    IF i > Len(lines) THEN <<>>
    ELSE LET line == Trim(lines[i]) IN
         IF Len(line) = 0 \/ Len(parseCsvRow(line)) < Len(headers)
         THEN CsvRowsFrom(headers, lines, type, i + 1, canadaOnly)
         ELSE LET r == CsvRowToPlant(headers, line, type, i - 1, canadaOnly) IN
              (IF r.pushed THEN <<r.plant>> ELSE <<>>)
                  \o CsvRowsFrom(headers, lines, type, i + 1, canadaOnly)

parsePowerPlantCSV(csvText, type, canadaOnly) ==
    LET lines == Split(csvText, "\n")
        headers == ParseHeaders(lines[1]) IN
    CsvRowsFrom(headers, lines, type, 2, canadaOnly)

(***************************************************************************)
(* EIA feed records.  A field of an item is [def, str]: def = FALSE when   *)
(* the item has no such field (parseFloat(undefined) is NaN).              *)
(***************************************************************************)
ParseFloatField(field, decimals) ==
    IF field.def THEN ParseFloat(field.str, decimals) ELSE NaN

\* nameplateCapacity > 0 ? (netSummerCapacity / nameplateCapacity) * 100 : null;
\* den = 0 stands for a NaN or infinite quotient
CapacityFactorOf(netSummerCapacity, nameplateCapacity) ==
    IF ~GreaterThanZero(nameplateCapacity) THEN NoNumber
    ELSE IF netSummerCapacity.kind = "num" /\ nameplateCapacity.kind = "num"
    THEN Frac(netSummerCapacity.v * 100, nameplateCapacity.v)
    ELSE [def |-> TRUE, num |-> 0, den |-> 0]

OptionalNumber(x) ==
    IF x.kind = "num" THEN [def |-> TRUE, num |-> x.v, den |-> 1]
    ELSE [def |-> TRUE, num |-> x.v, den |-> 0]

\* transformEIAItemToPowerPlant(item): [ok, plant], ok = FALSE for null
transformEIAItemToPowerPlant(item) ==
    LET latitude == ParseFloatField(item.latitude, 5)
        longitude == ParseFloatField(item.longitude, 5)
        nameplateCapacity == NumberOrZero(ParseFloatField(item.nameplate, 1))
        netSummerCapacity == ParseFloatField(item.netSummer, 1)
        netWinterCapacity == ParseFloatField(item.netWinter, 1)
        plant == [id |-> <<"us", item.plantid, item.generatorid>>,
                  name |-> IF Len(item.plantName) > 0 THEN item.plantName
                           ELSE StrUnknownPlant,
                  output |-> nameplateCapacity,
                  outputDisplay |-> NumberDisplay(nameplateCapacity),
                  source |-> mapEnergySource(StrOther),
                  coordinates |-> <<longitude, latitude>>,
                  country |-> "US",
                  capacityFactor |-> CapacityFactorOf(netSummerCapacity, nameplateCapacity),
                  netSummerCapacity |-> IF IsNaN(netSummerCapacity) THEN NoNumber
                                        ELSE OptionalNumber(netSummerCapacity),
                  netWinterCapacity |-> IF IsNaN(netWinterCapacity) THEN NoNumber
                                        ELSE OptionalNumber(netWinterCapacity),
                  rawData |-> item] IN
    [ok |-> ~(IsNaN(latitude) \/ IsNaN(longitude) \/ AtMostZero(nameplateCapacity)),
     plant |-> plant]

RECURSIVE TransformItemsFrom(_, _)
TransformItemsFrom(jsonData, i) ==
    IF i > Len(jsonData) THEN <<>>
    ELSE LET r == transformEIAItemToPowerPlant(jsonData[i]) IN
         (IF r.ok THEN <<r.plant>> ELSE <<>>) \o TransformItemsFrom(jsonData, i + 1)

transformEIADataToPowerPlants(jsonData) == TransformItemsFrom(jsonData, 1)

\* the loop body of parseEIAData: the seasonal capacities default to 0
ParseEIAItem(item) ==
    LET latitude == ParseFloatField(item.latitude, 5)
        longitude == ParseFloatField(item.longitude, 5)
        nameplateCapacity == NumberOrZero(ParseFloatField(item.nameplate, 1))
        netSummerCapacity == NumberOrZero(ParseFloatField(item.netSummer, 1))
        netWinterCapacity == NumberOrZero(ParseFloatField(item.netWinter, 1))
        plant == [id |-> <<"us", item.plantid, item.generatorid>>,
                  name |-> IF Len(item.plantName) > 0 THEN item.plantName
                           ELSE StrUnknownPlant,
                  output |-> nameplateCapacity,
                  outputDisplay |-> NumberDisplay(nameplateCapacity),
                  source |-> mapEnergySource(StrOther),
                  coordinates |-> <<longitude, latitude>>,
                  country |-> "US",
                  capacityFactor |-> CapacityFactorOf(netSummerCapacity, nameplateCapacity),
                  netSummerCapacity |-> OptionalNumber(netSummerCapacity),
                  netWinterCapacity |-> OptionalNumber(netWinterCapacity),
                  rawData |-> item] IN
    [ok |-> ~(IsNaN(latitude) \/ IsNaN(longitude) \/ AtMostZero(nameplateCapacity)),
     plant |-> plant]

RECURSIVE ParseEIAItemsFrom(_, _)
ParseEIAItemsFrom(data, i) ==
    IF i > Len(data) THEN <<>>
    ELSE LET r == ParseEIAItem(data[i]) IN
         (IF r.ok THEN <<r.plant>> ELSE <<>>) \o ParseEIAItemsFrom(data, i + 1)

\* parseEIAData(jsonData) with jsonData.response.data = data
parseEIAData(data) == ParseEIAItemsFrom(data, 1)

(***************************************************************************)
(* The source payloads of the model.  A CSV text is a header line and up   *)
(* to MaxRows data rows; a feed is a list of up to MaxRows items.  The     *)
(* cells cover quoted names with a comma and with a doubled quote (inside  *)
(* the name and at its end), both                                          *)
(* countries, coordinates that are fine, not numeric, out of range or      *)
(* infinite, and capacities that are positive, zero or written with a      *)
(* thousands separator.                                                    *)
(***************************************************************************)
Quoted(str) == <<"\"">> \o str \o <<"\"">>

NameCells ==
    { <<"\"", "A", "\"">>,
      <<"\"", "A", ",", "B", "\"">>,
      <<"\"", "A", "\"", "\"", "B", "\"">>,
      <<"\"", "A", "\"", "\"", "\"">> }

CountryCells == { Quoted(StrCanada), <<"\"", "U", "S", "\"">> }

\* <<Latitude cell, Longitude cell>>
CoordinateCells ==
    { <<<<"4", "5", ".", "5">>, <<"-", "7", "5", ".", "5">>>>,
      <<<<"x">>, <<"-", "7", "5", ".", "5">>>>,
      <<<<"9", "5">>, <<"-", "7", "5", ".", "5">>>>,
      <<<<"4", "5", ".", "5">>, <<"-", "2", "0", "0">>>>,
      <<StrInfinity, <<"-", "7", "5", ".", "5">>>> }

CapacityCells ==
    { <<"1", "0", "0", ".", "0">>,
      <<"0", ".", "0">>,
      <<"\"", "1", ",", "0", "0", "0", "\"">> }

SourceCell == <<"\"", "W", "i", "n", "d", "\"">>

\* the column orders of a header: by column kind
HeaderOrders ==
    { <<"name", "country", "lat", "lon", "cap", "src">>,
      <<"cap", "lon", "lat", "src", "country", "name">> }

HeaderName(col, type) ==
    CASE col = "name" -> StrFacilityName
      [] col = "country" -> StrCountry
      [] col = "lat" -> StrLatitude
      [] col = "lon" -> StrLongitude
      [] col = "cap" -> StrTotalCapacity
      [] col = "src" -> IF type = "large" THEN StrPrimaryEnergySource
                        ELSE StrPrimaryRenewableEnergySource

RowCell(col, cells) ==
    CASE col = "name" -> cells.name
      [] col = "country" -> cells.country
      [] col = "lat" -> cells.coordinates[1]
      [] col = "lon" -> cells.coordinates[2]
      [] col = "cap" -> cells.capacity
      [] col = "src" -> SourceCell

RECURSIVE JoinWith(_, _, _)
JoinWith(parts, sep, i) ==
    IF i > Len(parts) THEN <<>>
    ELSE IF i = Len(parts) THEN parts[i]
    ELSE parts[i] \o <<sep>> \o JoinWith(parts, sep, i + 1)

\* the rows: every name, country and capacity cell at one pair of coordinates,
\* and every pair of coordinates at one name and capacity
RowCells ==
    [name : NameCells, country : CountryCells,
     coordinates : { <<<<"4", "5", ".", "5">>, <<"-", "7", "5", ".", "5">>>> },
     capacity : CapacityCells]
      \cup
    [name : { Quoted(<<"A">>) }, country : CountryCells,
     coordinates : CoordinateCells, capacity : { <<"1", "0", "0", ".", "0">> }]

HeaderLine(order, type) ==
    JoinWith([k \in 1..Len(order) |-> Quoted(HeaderName(order[k], type))], ",", 1)

RowLine(order, cells) ==
    JoinWith([k \in 1..Len(order) |-> RowCell(order[k], cells)], ",", 1)

RECURSIVE RowLists(_)
RowLists(n) ==
    IF n = 0 THEN { <<>> }
    ELSE LET shorter == RowLists(n - 1) IN
         shorter \cup { Append(l, c) : l \in { s \in shorter : Len(s) = n - 1 },
                                       c \in RowCells }

CsvText(order, type, rows) ==
    JoinWith(<<HeaderLine(order, type)>>
                 \o [k \in 1..Len(rows) |-> RowLine(order, rows[k])], "\n", 1)

Field(str) == [def |-> TRUE, str |-> str]
NoField == [def |-> FALSE, str |-> <<>>]

EIAItems ==
    [plantid : {1}, generatorid : {1}, plantName : { <<"A">> },
     latitude : {Field(c[1]) : c \in CoordinateCells} \cup {NoField},
     longitude : { Field(<<"-", "7", "5", ".", "5">>) },
     nameplate : { Field(<<"1", "0", "0", ".", "5">>), Field(<<"0">>), NoField },
     netSummer : { Field(<<"8", "0", ".", "4">>), NoField },
     netWinter : { Field(<<"9", "0">>) }]
      \cup
    [plantid : {2}, generatorid : {1}, plantName : { <<"B">> },
     latitude : { Field(<<"4", "5", ".", "5">>) },
     longitude : { Field(<<"-", "2", "0", "0">>), Field(StrInfinity) },
     nameplate : { Field(<<"1", "0", "0", ".", "5">>) },
     netSummer : { Field(<<"8", "0", ".", "4">>) },
     netWinter : { NoField }]

RECURSIVE ItemLists(_)
ItemLists(n) ==
    IF n = 0 THEN { <<>> }
    ELSE LET shorter == ItemLists(n - 1) IN
         shorter \cup { Append(l, c) : l \in { s \in shorter : Len(s) = n - 1 },
                                       c \in EIAItems }

(***************************************************************************)
(* Actions of ingestion: one call of a parse function on a payload.        *)
(***************************************************************************)
\* parsePowerPlantCSV(csvText, type), in either variant of the function
ParseCsv ==
    /\ ipc = "idle"
    /\ \E order \in HeaderOrders, type \in {"large", "renewable"},
          rows \in RowLists(MaxRows), canadaOnly \in BOOLEAN :
            /\ ipc' = "csv"
            /\ sourcePayload' = [text |-> CsvText(order, type, rows), type |-> type,
                                 canadaOnly |-> canadaOnly, items |-> <<>>]
            /\ ingested' = parsePowerPlantCSV(CsvText(order, type, rows), type,
                                              canadaOnly)
    /\ UNCHANGED notIngestVars

\* transformEIADataToPowerPlants(jsonData)
TransformEIAData ==
    /\ ipc = "idle"
    /\ \E items \in ItemLists(MaxRows) :
            /\ ipc' = "eia"
            /\ sourcePayload' = [text |-> <<>>, type |-> "eia",
                                 canadaOnly |-> FALSE, items |-> items]
            /\ ingested' = transformEIADataToPowerPlants(items)
    /\ UNCHANGED notIngestVars

\* parseEIAData(jsonData)
ParseEIAData ==
    /\ ipc = "idle"
    /\ \E items \in ItemLists(MaxRows) :
            /\ ipc' = "eia3"
            /\ sourcePayload' = [text |-> <<>>, type |-> "eia3",
                                 canadaOnly |-> FALSE, items |-> items]
            /\ ingested' = parseEIAData(items)
    /\ UNCHANGED notIngestVars

NextIngestion == ParseCsv \/ TransformEIAData \/ ParseEIAData

SpecIngestion == Init /\ [][NextIngestion]_vars


(***************************************************************************)
(* JSON.stringify and JSON.parse of the values and entries the cache       *)
(* handles, and LZString.compress / LZString.decompress.                   *)
(***************************************************************************)
\* the inverse of NumberToText
RECURSIVE TextToNumberFrom(_, _, _)
TextToNumberFrom(str, i, acc) ==
    IF i > Len(str) THEN acc
    ELSE TextToNumberFrom(str, i + 1, acc * 10 + DigitValue(str[i]))

TextToNumber(str) == With(str, LAMBDA x : TextToNumberFrom(x, 1, 0))

\* the body of a JSON string literal: quotes and backslashes are escaped
RECURSIVE JsonEscape(_, _)
JsonEscape(str, i) ==
    IF i > Len(str) THEN <<>>
    ELSE (IF str[i] \in {"\"", "\\"} THEN <<"\\", str[i]>> ELSE <<str[i]>>)
             \o JsonEscape(str, i + 1)

\* a mutation: the string is written between quotes as it is
JsonQuoteNoEscape(str) == <<"\"">> \o str \o <<"\"">>

JsonQuote(str) == With(str, LAMBDA x : <<"\"">> \o JsonEscape(x, 1) \o <<"\"">>)

\* the string a literal denotes: s[i..j-1] is the body of the literal
RECURSIVE JsonUnescape(_, _, _)
JsonUnescape(s, i, j) ==
    IF i >= j THEN <<>>
    ELSE IF s[i] = "\\"
         THEN <<IF s[i + 1] = "n" THEN "\n" ELSE s[i + 1]>> \o JsonUnescape(s, i + 2, j)
    ELSE <<s[i]>> \o JsonUnescape(s, i + 1, j)

\* JSON.stringify(data)
JsonStringify(data) ==
    CASE data.kind = "array" ->
           <<"[">> \o JoinWith([k \in 1..Len(data.items) |-> JsonQuote(data.items[k])],
                               ",", 1) \o <<"]">>
      [] data.kind = "null" -> <<"n", "u", "l", "l">>
      [] OTHER -> data.text

\* the elements of an array of strings from position i of a canonical text
RECURSIVE StringElements(_, _)
StringElements(c, i) ==
    IF i > Len(c) \/ c[i] # "\"" THEN [ok |-> FALSE, items |-> <<>>]
    ELSE With(JsonStringEnd(c, i + 1), LAMBDA e :
         IF e = 0 \/ e > Len(c) THEN [ok |-> FALSE, items |-> <<>>]
         ELSE IF c[e] = "]"
              THEN [ok |-> e = Len(c), items |-> <<JsonUnescape(c, i + 1, e - 1)>>]
         ELSE IF c[e] = ","
              THEN With(StringElements(c, e + 1), LAMBDA r :
                   [ok |-> r.ok, items |-> <<JsonUnescape(c, i + 1, e - 1)>> \o r.items])
         ELSE [ok |-> FALSE, items |-> <<>>])

\* JSON.parse(s) of a text that parses
JsonParse(s) ==
    With(JsonValue(s), LAMBDA c :
    IF c = <<"n", "u", "l", "l">> THEN NullValue
    ELSE IF c = <<"[", "]">> THEN ArrayValue(<<>>)
    ELSE IF c[1] = "["
         THEN With(StringElements(c, 2), LAMBDA r :
              IF r.ok THEN ArrayValue(r.items) ELSE OtherValue(c))
    ELSE OtherValue(c))

\* !value
IsFalsy(value) ==
    \/ value.kind = "null"
    \/ value.kind = "json" /\ value.text \in { <<"0">>, <<"f", "a", "l", "s", "e">>,
                                               <<"\"", "\"">> }

\* LZString.compress: run-length pairs <<count, character>>, runs of at most 9
RECURSIVE RunLength(_, _)
RunLength(str, i) ==
    IF i < Len(str) /\ str[i + 1] = str[i] THEN 1 + RunLength(str, i + 1) ELSE 1

RECURSIVE LZStringCompressFrom(_, _)
LZStringCompressFrom(str, i) ==
    IF i > Len(str) THEN <<>>
    ELSE With(IF RunLength(str, i) > 9 THEN 9 ELSE RunLength(str, i), LAMBDA n :
         <<DecimalDigits[n + 1], str[i]>> \o LZStringCompressFrom(str, i + n))

\* the end of the run that holds position m
RunEnd(str, m) ==
    CHOOSE k \in m..Len(str) : /\ k = Len(str) \/ str[k] # str[k + 1]
                               /\ \A j \in m..(k - 1) : str[j] = str[j + 1]

\* a long text is compressed in two parts that meet where a run ends, which
\* gives the pairs of the whole text
RECURSIVE LZStringCompressParts(_)
LZStringCompressParts(str) ==
    IF Len(str) <= CompressBlock THEN LZStringCompressFrom(str, 1)
    ELSE With(RunEnd(str, Len(str) \div 2), LAMBDA m :
         IF m = Len(str) THEN LZStringCompressFrom(str, 1)
         ELSE LZStringCompressParts(SubSeq(str, 1, m))
                  \o LZStringCompressParts(SubSeq(str, m + 1, Len(str))))

LZStringCompress(uncompressed) ==
    With(uncompressed, LAMBDA str : LZStringCompressParts(str))

\* LZString.decompress: null for the empty string and for a string that is
\* no sequence of run-length pairs
RECURSIVE LZStringExpand(_, _)
LZStringExpand(compressed, i) ==
    IF i > Len(compressed) THEN <<>>
    ELSE [k \in 1..DigitValue(compressed[i]) |-> compressed[i + 1]]
             \o LZStringExpand(compressed, i + 2)

LZStringDecompress(compressed) ==
    With(compressed, LAMBDA str :
    IF \/ str = <<>>
       \/ Len(str) % 2 # 0
       \/ \E k \in 1..Len(str) : k % 2 = 1 /\ str[k] \notin (JsonDigits \ {"0"})
    THEN [isNull |-> TRUE, text |-> <<>>]
    ELSE [isNull |-> FALSE, text |-> LZStringExpand(str, 1)])

\* the member names of a CacheEntry and the fixed text between its members
MetadataName == <<"m", "e", "t", "a", "d", "a", "t", "a">>
TimestampName == <<"t", "i", "m", "e", "s", "t", "a", "m", "p">>
VersionName == <<"v", "e", "r", "s", "i", "o", "n">>
SizeName == <<"s", "i", "z", "e">>
CompressedSizeName == <<"c", "o", "m", "p", "r", "e", "s", "s", "e", "d", "S", "i", "z", "e">>
CompressedName == <<"c", "o", "m", "p", "r", "e", "s", "s", "e", "d">>
DataName == <<"d", "a", "t", "a">>

\* JSON.stringify(entry) of a CacheEntry
StringifyEntry(entry0) ==
    With(entry0, LAMBDA entry :
    <<"{">> \o JsonQuote(MetadataName) \o <<":", "{">> \o JsonQuote(TimestampName) \o <<":">>
     \o NumberToText(entry.metadata.timestamp)
    \o <<",">> \o JsonQuote(VersionName) \o <<":">> \o JsonQuote(entry.metadata.version)
    \o <<",">> \o JsonQuote(SizeName) \o <<":">> \o NumberToText(entry.metadata.size)
    \o <<",">> \o JsonQuote(CompressedSizeName) \o <<":">> \o NumberToText(entry.metadata.compressedSize)
    \o <<",">> \o JsonQuote(CompressedName) \o <<":">> \o (IF entry.metadata.compressed THEN <<"t", "r", "u", "e">>
                                             ELSE <<"f", "a", "l", "s", "e">>)
    \o <<"}", ",">> \o JsonQuote(DataName) \o <<":">> \o JsonQuote(entry.data) \o <<"}">>)

\* the text of member `name` of the object whose members start at i0
Undefined == [def |-> FALSE, text |-> <<>>]

RECURSIVE JsonMemberFrom(_, _, _)
JsonMemberFrom(s, i0, name) ==
    With(SkipWs(s, i0), LAMBDA i :
    IF i > Len(s) \/ s[i] # "\"" THEN Undefined
    ELSE With(JsonStringEnd(s, i + 1), LAMBDA k :
         With(SkipWs(s, k), LAMBDA c :
         With(JsonValueEnd(s, c + 1), LAMBDA v :
         IF JsonUnescape(s, i + 1, k - 1) = name
         THEN [def |-> TRUE, text |-> SubSeq(s, SkipWs(s, c + 1), v - 1)]
         ELSE With(SkipWs(s, v), LAMBDA d :
              IF s[d] = "," THEN JsonMemberFrom(s, d + 1, name) ELSE Undefined)))))

\* object[name] of the object a text that parses denotes
JsonMember(s0, name) ==
    With(s0, LAMBDA s :
    With(SkipWs(s, 1), LAMBDA i :
    IF s[i] = "{" THEN JsonMemberFrom(s, i + 1, name) ELSE Undefined))

\* the string a string literal denotes, the number a number literal denotes
JsonStringOf(member) ==
    With(member, LAMBDA m :
    IF m.def /\ Len(m.text) >= 2 /\ m.text[1] = "\""
    THEN JsonUnescape(m.text, 2, Len(m.text)) ELSE <<>>)

JsonNumberOf(member) ==
    With(member, LAMBDA m :
    IF m.def /\ Len(m.text) >= 1 /\ m.text[1] \in JsonDigits
    THEN TextToNumber(m.text) ELSE 0)

\* JSON.parse(cached) as a CacheEntry, of a text that parses
ParseEntry(cached) ==
    With(JsonMember(cached, MetadataName), LAMBDA metadata :
    LET Meta(name) == IF metadata.def THEN JsonMember(metadata.text, name)
                      ELSE Undefined IN
    [isNull |-> FALSE,
     metadata |-> [timestamp |-> JsonNumberOf(Meta(TimestampName)),
                   version |-> JsonStringOf(Meta(VersionName)),
                   size |-> JsonNumberOf(Meta(SizeName)),
                   compressedSize |-> JsonNumberOf(Meta(CompressedSizeName)),
                   compressed |-> Meta(CompressedName).text = <<"t", "r", "u", "e">>],
     data |-> JsonStringOf(JsonMember(cached, DataName))])

(***************************************************************************)
(* localStorage with a quota, and the functions of CacheManager.  A        *)
(* function that writes returns its result and the store it leaves.        *)
(***************************************************************************)
\* the characters the store holds: keys and values of the items present
RECURSIVE StorageSizeOf(_, _)
StorageSizeOf(st, keys) ==
    IF keys = {} THEN 0
    ELSE LET k == CHOOSE x \in keys : TRUE IN
         (IF st[k].present THEN Len(k) + Len(st[k].text) ELSE 0)
             + StorageSizeOf(st, keys \ {k})

StorageSize(st) == StorageSizeOf(st, StorageKeys)

getItem(st, k) == st[k]

removeItem(st, k) == [st EXCEPT ![k] = Absent]

\* localStorage.setItem(k, text): throws QuotaExceededError, writing nothing,
\* when the store would exceed the quota
setItem(st, k, text) ==
    With([st EXCEPT ![k] = Stored(text)], LAMBDA wrote :
    IF StorageSize(wrote) > Quota THEN [threw |-> TRUE, store |-> st]
    ELSE [threw |-> FALSE, store |-> wrote])

\* a mutation: the test key is left behind
willFitInStorageLeavingKey(st, data) ==
    With(setItem(st, testKey, data), LAMBDA r :
    [result |-> ~r.threw, store |-> r.store])

willFitInStorage(st, data) ==
    With(setItem(st, testKey, data), LAMBDA r :
    IF r.threw THEN [result |-> FALSE, store |-> r.store]
    ELSE [result |-> TRUE, store |-> removeItem(r.store, testKey)])

compressData(data) == LZStringCompress(JsonStringify(data))

\* decompressData(compressed): threw, or the value
decompressData(compressed) ==
    With(LZStringDecompress(compressed), LAMBDA decompressed :
    IF decompressed.isNull \/ decompressed.text = <<>>
    THEN [threw |-> TRUE, value |-> NullValue]
    ELSE IF ~JsonParses(decompressed.text) THEN [threw |-> TRUE, value |-> NullValue]
    ELSE [threw |-> FALSE, value |-> JsonParse(decompressed.text)])

getCachedData(st, key) ==
    With(getItem(st, CACHE_PREFIX \o key), LAMBDA cached :
    IF ~cached.present \/ cached.text = <<>> THEN NullEntry
    ELSE IF ~JsonParses(cached.text) THEN NullEntry
    ELSE ParseEntry(cached.text))

setCachedData(st, key, data, version, time) ==
    With(JsonStringify(data), LAMBDA originalData :
    With(compressData(data), LAMBDA compressedData :
    With(willFitInStorage(st, compressedData), LAMBDA fit :
    IF ~fit.result THEN [result |-> FALSE, store |-> fit.store]
    ELSE LET entry == [isNull |-> FALSE,
                       metadata |-> [timestamp |-> time, version |-> version,
                                     size |-> Len(originalData),
                                     compressedSize |-> Len(compressedData),
                                     compressed |-> TRUE],
                       data |-> compressedData] IN
         With(setItem(fit.store, CACHE_PREFIX \o key, StringifyEntry(entry)),
              LAMBDA r : [result |-> ~r.threw, store |-> r.store]))))

\* a mutation: an entry of age maxAgeMs is already expired
isCacheValidStrict(entry, maxAgeMs, time) ==
    LET age == time - entry.metadata.timestamp
        isExpired == age >= maxAgeMs IN
    ~isExpired

isCacheValid(entry, maxAgeMs, time) ==
    LET age == time - entry.metadata.timestamp
        isExpired == age > maxAgeMs IN
    ~isExpired

\* clearCache(): every item whose key starts with the prefix
clearCacheAll(st) ==
    [k \in StorageKeys |->
        IF Len(k) >= Len(CACHE_PREFIX) /\ SubSeq(k, 1, Len(CACHE_PREFIX)) = CACHE_PREFIX
        THEN Absent ELSE st[k]]

\* clearCache(key): `if (key)` takes the empty string for no key
clearCache(st, key) ==
    IF key # <<>> THEN removeItem(st, CACHE_PREFIX \o key) ELSE clearCacheAll(st)

\* a mutation: the corrupted entry is left in the store
getDecompressedDataKeeping(st, key) ==
    With(getCachedData(st, key), LAMBDA entry :
    IF entry.isNull THEN [value |-> NullValue, store |-> st]
    ELSE With(decompressData(entry.data), LAMBDA r :
         [value |-> IF r.threw THEN NullValue ELSE r.value, store |-> st]))

getDecompressedData(st, key) ==
    With(getCachedData(st, key), LAMBDA entry :
    IF entry.isNull THEN [value |-> NullValue, store |-> st]
    ELSE With(decompressData(entry.data), LAMBDA r :
         IF r.threw THEN [value |-> NullValue, store |-> clearCache(st, key)]
         ELSE [value |-> r.value, store |-> st]))

\* a mutation: the age of the entry is not looked at
CableCacheGetUnchecked(st, time) == getDecompressedData(st, CACHE_KEY)

\* CableCache.get()
CableCacheGet(st, time) ==
    With(getCachedData(st, CACHE_KEY), LAMBDA entry :
    IF entry.isNull THEN [value |-> NullValue, store |-> st]
    ELSE IF ~isCacheValid(entry, CACHE_DURATION, time)
         THEN [value |-> NullValue, store |-> st]
    ELSE getDecompressedData(st, CACHE_KEY))

\* getCachedEIAData()
getCachedEIAData(st, time) ==
    With(getCachedData(st, EIA_DATA_CACHE_KEY), LAMBDA entry :
    IF entry.isNull THEN [value |-> NullValue, store |-> st]
    ELSE IF ~isCacheValid(entry, CACHE_DURATION, time)
         THEN [value |-> NullValue, store |-> clearCache(st, EIA_DATA_CACHE_KEY)]
    ELSE With(getDecompressedData(st, EIA_DATA_CACHE_KEY), LAMBDA r :
         [value |-> IF IsFalsy(r.value) THEN NullValue ELSE r.value,
          store |-> r.store]))

(***************************************************************************)
(* Actions of the cache.  A call runs to its return in one step (the code  *)
(* is synchronous); Return forgets the call.  Between calls the clock      *)
(* advances and the environment may damage a stored item.                  *)
(***************************************************************************)
\* the values callers cache
DataValues ==
    { ArrayValue(<<>>),
      ArrayValue(<< <<"a", "\"">> >>),
      ArrayValue(<< <<"a">>, <<"a">>, <<"a">>, <<"a">>, <<"a">>, <<"a">> >>) }

\* the maxAgeMs arguments of isCacheValid
MaxAges == {1, CACHE_DURATION}

\* the steps of the clock
ClockSteps == {1, CACHE_DURATION - 1, CACHE_DURATION + 1}

\* the ways the payload of a stored entry is damaged: cut short (it does not
\* decompress), replaced by the compressed form of a text that is no JSON
DamageKinds == {"cut", "junk"}

DamagedPayload(data, how) ==
    CASE how = "cut" -> SubSeq(data, 1, Len(data) - 1)
      [] how = "junk" -> LZStringCompress(<<"[">>)

Returned(op, key, c0) ==
    With(c0, LAMBDA c :
    [NoCall EXCEPT !.op = op, !.key = key, !.before = store,
                   !.data = c.data, !.maxAgeMs = c.maxAgeMs, !.ok = c.ok,
                   !.value = c.value, !.entry = c.entry])

\* CacheManager.setCachedData(key, data, version)
SetCachedDataAs(key, data, version) ==
    /\ cpc = "idle"
    /\ \E r \in {setCachedData(store, key, data, version, now)} :
       /\ store' = r.store
       /\ call' = Returned("setCachedData", key,
                           [NoCall EXCEPT !.data = data, !.ok = r.result])
       /\ written' = IF r.result
                     THEN [written EXCEPT ![key] = [ok |-> TRUE, value |-> data,
                                                    time |-> now]]
                     ELSE written
    /\ cpc' = "returned"
    /\ UNCHANGED <<now, nTicks>>
    /\ UNCHANGED notCacheVars

\* CacheManager.setCachedData(key, data), with the default version
SetCachedData(key, data) == SetCachedDataAs(key, data, DEFAULT_VERSION)

\* CableCache.set(data)
CableCacheSet(data) == SetCachedData(CACHE_KEY, data)

\* cacheEIAData(data)
CacheEIAData(data) == SetCachedData(EIA_DATA_CACHE_KEY, data)

\* CacheManager.getCachedData(key)
GetCachedData(key) ==
    /\ cpc = "idle"
    /\ \E entry \in {getCachedData(store, key)} :
         call' = Returned("getCachedData", key,
                          [NoCall EXCEPT !.entry = entry, !.ok = ~entry.isNull])
    /\ cpc' = "returned"
    /\ UNCHANGED <<store, now, nTicks, written>>
    /\ UNCHANGED notCacheVars

\* CacheManager.getDecompressedData(key)
GetDecompressedData(key) ==
    /\ cpc = "idle"
    /\ \E r \in {getDecompressedData(store, key)} :
       /\ store' = r.store
       /\ call' = Returned("getDecompressedData", key,
                           [NoCall EXCEPT !.value = r.value,
                                          !.ok = r.value # NullValue])
    /\ cpc' = "returned"
    /\ UNCHANGED <<now, nTicks, written>>
    /\ UNCHANGED notCacheVars

\* CacheManager.isCacheValid(entry, maxAgeMs), entry read from the store
IsCacheValid(key, maxAgeMs) ==
    /\ cpc = "idle"
    /\ \E entry \in {getCachedData(store, key)} :
         /\ ~entry.isNull
         /\ call' = Returned("isCacheValid", key,
                             [NoCall EXCEPT !.entry = entry, !.maxAgeMs = maxAgeMs,
                                            !.ok = isCacheValid(entry, maxAgeMs, now)])
    /\ cpc' = "returned"
    /\ UNCHANGED <<store, now, nTicks, written>>
    /\ UNCHANGED notCacheVars

\* CacheManager.clearCache(key)
ClearCache(key) ==
    /\ cpc = "idle"
    /\ store' = clearCache(store, key)
    /\ call' = Returned("clearCache", key, NoCall)
    /\ written' = IF key # <<>> THEN [written EXCEPT ![key] = NoWrite]
                  ELSE [k \in AnyCacheKeys |-> NoWrite]
    /\ cpc' = "returned"
    /\ UNCHANGED <<now, nTicks>>
    /\ UNCHANGED notCacheVars

\* CableCache.clear()
CableCacheClear == ClearCache(CACHE_KEY)

\* CacheManager.clearCache()
ClearAllCache ==
    /\ cpc = "idle"
    /\ store' = clearCacheAll(store)
    /\ call' = Returned("clearCacheAll", <<>>, NoCall)
    /\ written' = [k \in AnyCacheKeys |-> NoWrite]
    /\ cpc' = "returned"
    /\ UNCHANGED <<now, nTicks>>
    /\ UNCHANGED notCacheVars

\* CableCache.get()
CableGet ==
    /\ cpc = "idle"
    /\ \E r \in {CableCacheGet(store, now)} :
       /\ store' = r.store
       /\ call' = Returned("CableCache.get", CACHE_KEY,
                           [NoCall EXCEPT !.value = r.value,
                                          !.ok = r.value # NullValue])
    /\ cpc' = "returned"
    /\ UNCHANGED <<now, nTicks, written>>
    /\ UNCHANGED notCacheVars

\* getCachedEIAData(), the cache path of loadEIADataEfficiently; it clears
\* an entry older than CACHE_DURATION
GetCachedEIAData ==
    /\ cpc = "idle"
    /\ \E r \in {getCachedEIAData(store, now)}, w \in {written[EIA_DATA_CACHE_KEY]} :
       /\ store' = r.store
       /\ call' = Returned("getCachedEIAData", EIA_DATA_CACHE_KEY,
                           [NoCall EXCEPT !.value = r.value,
                                          !.ok = r.value # NullValue])
       /\ written' = IF w.ok /\ now - w.time > CACHE_DURATION
                     THEN [written EXCEPT ![EIA_DATA_CACHE_KEY] = NoWrite]
                     ELSE written
    /\ cpc' = "returned"
    /\ UNCHANGED <<now, nTicks>>
    /\ UNCHANGED notCacheVars

\* the caller goes on
Return ==
    /\ cpc = "returned"
    /\ cpc' = "idle"
    /\ call' = NoCall
    /\ UNCHANGED <<store, now, nTicks, written>>
    /\ UNCHANGED notCacheVars

\* time passes
Tick(d) ==
    /\ cpc = "idle"
    /\ nTicks < MaxTicks
    /\ now' = now + d
    /\ nTicks' = nTicks + 1
    /\ UNCHANGED <<cpc, store, call, written>>
    /\ UNCHANGED notCacheVars

\* the payload of the entry stored under key is damaged outside the program
TamperPayload(key, how) ==
    /\ cpc = "idle"
    /\ written[key].ok
    /\ \E entry \in {getCachedData(store, key)} :
       store' = [store EXCEPT ![CACHE_PREFIX \o key] =
                    Stored(StringifyEntry([entry EXCEPT
                               !.data = DamagedPayload(entry.data, how)]))]
    /\ written' = [written EXCEPT ![key] = NoWrite]
    /\ UNCHANGED <<cpc, now, nTicks, call>>
    /\ UNCHANGED notCacheVars

\* the item stored under key loses its end: it is no JSON text any more
TamperRecord(key) ==
    /\ cpc = "idle"
    /\ written[key].ok
    /\ LET text == store[CACHE_PREFIX \o key].text IN
       store' = [store EXCEPT ![CACHE_PREFIX \o key] =
                    Stored(SubSeq(text, 1, Len(text) - 1))]
    /\ written' = [written EXCEPT ![key] = NoWrite]
    /\ UNCHANGED <<cpc, now, nTicks, call>>
    /\ UNCHANGED notCacheVars

\* CacheManager used directly, on a store that fills up and gets damaged
NextCache ==
    \/ \E key \in CacheKeys, data \in DataValues : SetCachedData(key, data)
    \/ \E key \in CacheKeys : GetCachedData(key)
    \/ \E key \in CacheKeys : GetDecompressedData(key)
    \/ \E key \in CacheKeys : ClearCache(key)
    \/ ClearAllCache
    \/ Return
    \/ Tick(1)
    \/ \E key \in CacheKeys, how \in DamageKinds : TamperPayload(key, how)
    \/ \E key \in CacheKeys : TamperRecord(key)

SpecCache == Init /\ [][NextCache]_vars

\* the readers and writers that apply the time-to-live, as time passes
NextCacheExpiry ==
    \/ \E data \in DataValues : CableCacheSet(data)
    \/ CableGet
    \/ CableCacheClear
    \/ \E data \in DataValues : CacheEIAData(data)
    \/ GetCachedEIAData
    \/ \E key \in CacheKeys, maxAgeMs \in MaxAges : IsCacheValid(key, maxAgeMs)
    \/ Return
    \/ \E d \in ClockSteps : Tick(d)

SpecCacheExpiry == Init /\ [][NextCacheExpiry]_vars

\* other code of the page stores an item of its own in localStorage
OtherSetItem(text) ==
    /\ cpc = "idle"
    /\ store' = setItem(store, otherKey, text).store
    /\ UNCHANGED <<cpc, now, nTicks, call, written>>
    /\ UNCHANGED notCacheVars

\* entries are written under any key, beside an item of other code, and
\* cleared one by one or all at once
NextCacheClear ==
    \/ \E key \in AnyCacheKeys, data \in DataValues : SetCachedData(key, data)
    \/ OtherSetItem(<<"d", "a", "r", "k">>)
    \/ \E key \in AnyCacheKeys : ClearCache(key)
    \/ ClearAllCache
    \/ Return

SpecCacheClear == Init /\ [][NextCacheClear]_vars

\* the version tag of the entries a build before a schema change wrote
OLD_VERSION == <<"v", "0">>

\* the version arguments of setCachedData
Versions == {OLD_VERSION, DEFAULT_VERSION}

\* entries are written under either version tag and read by the program,
\* whose version tag is DEFAULT_VERSION
NextCacheVersion ==
    \/ \E key \in CacheKeys, data \in DataValues, version \in Versions :
          SetCachedDataAs(key, data, version)
    \/ \E key \in CacheKeys : GetCachedData(key)
    \/ \E key \in CacheKeys : GetDecompressedData(key)
    \/ CableGet
    \/ GetCachedEIAData
    \/ Return
    \/ Tick(1)

SpecCacheVersion == Init /\ [][NextCacheVersion]_vars

(***************************************************************************)
(* The loaders.  What the network answers to one request is [kind, ok,    *)
(* body]: kind "rejects" when fetch() itself rejects (no connection),      *)
(* "broken" when the response arrives and reading its body fails, and      *)
(* "response" with the flag response.ok and the body otherwise.  The body  *)
(* of a CSV request is a text; the body of a feed request is [json,        *)
(* items]: json "feed" for { response: { data: items } }, "array" for the  *)
(* bare array items, "noData" for an object without response.data, and     *)
(* "notJson" for a text that is no JSON.                                   *)
(***************************************************************************)
Rejects == [kind |-> "rejects", ok |-> FALSE, body |-> <<>>]
Broken == [kind |-> "broken", ok |-> TRUE, body |-> <<>>]
Response(ok, body) == [kind |-> "response", ok |-> ok, body |-> body]

StrNotFound == <<"N", "o", "t", " ", "F", "o", "u", "n", "d">>
NotFound == Response(FALSE, StrNotFound)

\* what await, or try around a call, sees: a value or a thrown error
Value(value) == [threw |-> FALSE, value |-> value]
Thrown == [threw |-> TRUE, value |-> <<>>]

\* await fetch(url): response.ok is not looked at by the caller
AwaitFetch(answer) == IF answer.kind = "rejects" THEN Thrown ELSE Value(answer)

\* await response.text()
AwaitText(answer) == IF answer.kind = "broken" THEN Thrown ELSE Value(answer.body)

\* await response.json(): the parsed body
AwaitJson(answer) ==
    IF answer.kind = "broken" \/ answer.body.json = "notJson" THEN Thrown
    ELSE Value(answer.body)

\* A facility as the aggregation takes it: the numbers of ingestion that
\* are finite, as integers (the sources of the loaders hold no others), and
\* of rawData the one field the aggregation writes.
Facility(plant) ==
    [plant EXCEPT !.output = plant.output.v,
                  !.outputDisplay = OutputDisplay(plant.output.v),
                  !.coordinates = <<plant.coordinates[1].v, plant.coordinates[2].v>>,
                  !.rawData = [def |-> TRUE, totalCapacity |-> plant.output.v]]

\* aggregatePowerPlants(allPlants) as the list of facilities it returns
AggregatedFacilities(allPlants) ==
    With(allPlants, LAMBDA list :
    With([i \in 1..Len(list) |-> Facility(list[i])], LAMBDA objects :
    With(aggregatePowerPlants(objects, [i \in 1..Len(list) |-> i]), LAMBDA r :
    Deref(r.heap, r.refs))))

\* parseEIAData(usPlantsData) of part_014, from the structure check on
ParseEIAPayload(jsonData) ==
    IF jsonData.json # "feed" THEN <<>> ELSE parseEIAData(jsonData.items)

\* The try block of loadAndProcessAllPowerPlants: [threw, value, fetches],
\* value the list it returns and fetches the number of fetch() calls made.
\* withEIA tells the variant: Canada from the two CSV files and the US from
\* the feed (part_014), or the two CSV files alone.
TryLoadAndProcessAll(large, renewable, eia, withEIA) ==
    IF AwaitFetch(large).threw THEN [threw |-> TRUE, value |-> <<>>, fetches |-> 1]
    ELSE IF AwaitFetch(renewable).threw \/ AwaitText(large).threw
            \/ AwaitText(renewable).threw
    THEN [threw |-> TRUE, value |-> <<>>, fetches |-> 2]
    ELSE With(parsePowerPlantCSV(AwaitText(large).value, "large", withEIA),
              LAMBDA largePlants :
         With(parsePowerPlantCSV(AwaitText(renewable).value, "renewable", withEIA),
              LAMBDA renewablePlants :
         IF ~withEIA
         THEN [threw |-> FALSE, fetches |-> 2,
               value |-> AggregatedFacilities(largePlants \o renewablePlants)]
         ELSE IF AwaitFetch(eia).threw \/ AwaitJson(eia).threw
         THEN [threw |-> TRUE, value |-> <<>>, fetches |-> 3]
         ELSE [threw |-> FALSE, fetches |-> 3,
               value |-> AggregatedFacilities(
                             largePlants \o renewablePlants
                                 \o ParseEIAPayload(AwaitJson(eia).value))]))

Settled(state, list, fromCache) == [state |-> state, plants |-> list, cached |-> fromCache]

\* loadAndProcessAllPowerPlants without its catch: the error of the try
\* block reaches the caller
LoadAndProcessAllUncaught(attempt) ==
    IF attempt.threw THEN Settled("rejected", <<>>, FALSE)
    ELSE Settled("resolved", attempt.value, FALSE)

\* loadAndProcessAllPowerPlants(): try { ... } catch { return []; }
loadAndProcessAllPowerPlants(attempt) ==
    IF attempt.threw THEN Settled("resolved", <<>>, FALSE)
    ELSE Settled("resolved", attempt.value, FALSE)

(***************************************************************************)
(* JSON.stringify of a list of facilities, as cacheEIAData hands it to the *)
(* cache.  A number is written in decimal without trailing zeros (up to    *)
(* sixteen decimals), NaN and the infinities as null, and a field that is  *)
(* undefined is left out.                                                  *)
(***************************************************************************)
\* the decimals of rem / den, from long division
RECURSIVE DecimalsOf(_, _, _)
DecimalsOf(rem, den, places) ==
    IF rem = 0 \/ places = 0 THEN <<>>
    ELSE <<DecimalDigits[((rem * 10) \div den) + 1]>>
             \o DecimalsOf((rem * 10) % den, den, places - 1)

\* Number.prototype.toString of num / den, den > 0
DecimalText(num, den) ==
    LET decimals == DecimalsOf(Abs(num) % den, den, 16) IN
    (IF num < 0 THEN <<"-">> ELSE <<>>)
        \o NumberToText(Abs(num) \div den)
        \o (IF decimals = <<>> THEN <<>> ELSE <<".">> \o decimals)

StrNull == <<"n", "u", "l", "l">>

\* an optional or computed number [def, num, den] in units of 1 / scale
OptionalNumberText(x, scale) ==
    IF ~x.def \/ x.den = 0 THEN StrNull ELSE DecimalText(x.num, x.den * scale)

MemberText(key, valueText) == JsonQuote(key) \o <<":">> \o valueText

JsonObject(members) ==
    With(members, LAMBDA m : <<"{">> \o JoinWith(m, ",", 1) \o <<"}">>)

FieldMember(key, field) ==
    IF field.def THEN <<MemberText(key, JsonQuote(field.str))>> ELSE <<>>

\* JSON.stringify(item) of a feed item
EIAItemJson(item) ==
    JsonObject(<<MemberText(<<"p", "l", "a", "n", "t", "i", "d">>, NumberToText(item.plantid)),
                 MemberText(<<"g", "e", "n", "e", "r", "a", "t", "o", "r", "i", "d">>, NumberToText(item.generatorid)),
                 MemberText(<<"p", "l", "a", "n", "t", "N", "a", "m", "e">>, JsonQuote(item.plantName))>>
               \o FieldMember(<<"l", "a", "t", "i", "t", "u", "d", "e">>, item.latitude)
               \o FieldMember(<<"l", "o", "n", "g", "i", "t", "u", "d", "e">>, item.longitude)
               \o FieldMember(<<"n", "a", "m", "e", "p", "l", "a", "t", "e", "-", "c", "a", "p", "a", "c", "i", "t", "y", "-", "m", "w">>, item.nameplate)
               \o FieldMember(<<"n", "e", "t", "-", "s", "u", "m", "m", "e", "r", "-", "c", "a", "p", "a", "c", "i", "t", "y", "-", "m", "w">>, item.netSummer)
               \o FieldMember(<<"n", "e", "t", "-", "w", "i", "n", "t", "e", "r", "-", "c", "a", "p", "a", "c", "i", "t", "y", "-", "m", "w">>, item.netWinter))

\* `${x.toFixed(1)} MW` as text
OutputDisplayText(d) ==
    (IF d.neg THEN <<"-">> ELSE <<>>)
        \o (IF d.unit = "MW"
            THEN NumberToText(d.int) \o <<".", DecimalDigits[d.frac + 1]>> \o <<" ", "M", "W">>
            ELSE IF d.unit = "Infinity MW" THEN StrInfinity \o <<" ", "M", "W">>
            ELSE <<"N", "a", "N", " ", "M", "W">>)

\* the energy sources and countries of the model, as text
EnumText(e) ==
    CASE e = "other" -> <<"o", "t", "h", "e", "r">>
      [] e = "US" -> <<"U", "S">>
      [] e = "CA" -> <<"C", "A">>

\* a number [kind, v] of ingestion in units of 1 / scale
NumberText(x, scale) == IF x.kind = "num" THEN DecimalText(x.v, scale) ELSE StrNull

\* JSON.stringify(plant) of a facility made by transformEIAItemToPowerPlant
PowerPlantJson(plant) ==
    JsonObject(<<MemberText(<<"i", "d">>, JsonQuote(<<"u", "s", "-">> \o NumberToText(plant.id[2]) \o <<"-">>
                                                \o NumberToText(plant.id[3]))),
                 MemberText(<<"n", "a", "m", "e">>, JsonQuote(plant.name)),
                 MemberText(<<"o", "u", "t", "p", "u", "t">>, NumberText(plant.output, 10)),
                 MemberText(<<"o", "u", "t", "p", "u", "t", "D", "i", "s", "p", "l", "a", "y">>,
                            JsonQuote(OutputDisplayText(plant.outputDisplay))),
                 MemberText(<<"s", "o", "u", "r", "c", "e">>, JsonQuote(EnumText(plant.source))),
                 MemberText(<<"c", "o", "o", "r", "d", "i", "n", "a", "t", "e", "s">>,
                            <<"[">> \o NumberText(plant.coordinates[1], 100000) \o <<",">>
                                \o NumberText(plant.coordinates[2], 100000) \o <<"]">>),
                 MemberText(<<"c", "o", "u", "n", "t", "r", "y">>, JsonQuote(EnumText(plant.country))),
                 MemberText(<<"c", "a", "p", "a", "c", "i", "t", "y", "F", "a", "c", "t", "o", "r">>, OptionalNumberText(plant.capacityFactor, 1)),
                 MemberText(<<"r", "a", "w", "D", "a", "t", "a">>, EIAItemJson(plant.rawData))>>
               \o (IF plant.netSummerCapacity.def
                   THEN <<MemberText(<<"n", "e", "t", "S", "u", "m", "m", "e", "r", "C", "a", "p", "a", "c", "i", "t", "y">>,
                                     OptionalNumberText(plant.netSummerCapacity, 10))>>
                   ELSE <<>>)
               \o (IF plant.netWinterCapacity.def
                   THEN <<MemberText(<<"n", "e", "t", "W", "i", "n", "t", "e", "r", "C", "a", "p", "a", "c", "i", "t", "y">>,
                                     OptionalNumberText(plant.netWinterCapacity, 10))>>
                   ELSE <<>>))

\* the list as the value the cache is given: [] is the array without
\* elements, any longer list is held as its JSON text
PlantsValue(list) ==
    IF list = <<>> THEN ArrayValue(<<>>)
    ELSE With([k \in 1..Len(list) |-> PowerPlantJson(list[k])], LAMBDA texts :
         OtherValue(<<"[">> \o JoinWith(texts, ",", 1) \o <<"]">>))

\* What the call of loadLargeJsonData inside loadEIADataEfficiently does:
\* kind "rejects" when its promise rejects (its own request fails, is not
\* OK or has no body, or the stream fails), kind "delivers" when it
\* resolves, with the items it handed to the processor.
StreamRejects == [kind |-> "rejects", items |-> <<>>]
StreamDelivers(items) == [kind |-> "delivers", items |-> items]

\* transformEIADataToPowerPlants(rawData) from Array.isArray on
TransformEIAPayload(rawData) ==
    IF rawData.json # "array" THEN <<>> ELSE transformEIADataToPowerPlants(rawData.items)

\* The part of loadEIADataEfficiently after a cache miss, inside its try
\* block: [threw, value, store, wrote, fetches], value the list it returns
\* (as a JavaScript value), store localStorage afterwards and wrote
\* whether the list was cached.
\* The processor handed to loadLargeJsonData transforms each item as
\* transformEIADataToPowerPlants does.
TryLoadEIAFromNetwork(st, time, response, stream) ==
    IF AwaitFetch(response).threw \/ ~response.ok
    THEN [threw |-> TRUE, value |-> NullValue, store |-> st, wrote |-> FALSE,
          fetches |-> 1]
    ELSE IF stream.kind = "rejects" /\ AwaitJson(response).threw
    THEN [threw |-> TRUE, value |-> NullValue, store |-> st, wrote |-> FALSE,
          fetches |-> 2]
    ELSE With(IF stream.kind = "rejects"
              THEN TransformEIAPayload(AwaitJson(response).value)
              ELSE transformEIADataToPowerPlants(stream.items), LAMBDA list :
         With(PlantsValue(list), LAMBDA plantsValue :
         With(setCachedData(st, EIA_DATA_CACHE_KEY, plantsValue, DEFAULT_VERSION, time),
              LAMBDA w :
         [threw |-> FALSE, value |-> plantsValue, store |-> w.store,
          wrote |-> w.result, fetches |-> 2])))

\* the promise of loadEIADataEfficiently, settled with a JavaScript value
SettledWith(state, value, fromCache) ==
    [state |-> state, plants |-> value, cached |-> fromCache]

\* the outer try and catch of loadEIADataEfficiently around the network part
LoadEIAFromNetwork(attempt) ==
    IF attempt.threw THEN SettledWith("resolved", ArrayValue(<<>>), FALSE)
    ELSE SettledWith("resolved", attempt.value, FALSE)

\* loadEIADataEfficiently(): [loaded, store, wrote, fetches]
loadEIADataEfficiently(st, time, response, stream) ==
    With(getCachedEIAData(st, time), LAMBDA cachedData :
    IF cachedData.value # NullValue
    THEN [loaded |-> SettledWith("resolved", cachedData.value, TRUE),
          store |-> cachedData.store, wrote |-> FALSE, fetches |-> 0]
    ELSE With(TryLoadEIAFromNetwork(cachedData.store, time, response, stream),
              LAMBDA attempt :
         [loaded |-> LoadEIAFromNetwork(attempt), store |-> attempt.store,
          wrote |-> attempt.wrote, fetches |-> attempt.fetches]))

(***************************************************************************)
(* The answers of the model.  A CSV file holds up to MaxRows rows of one   *)
(* facility, in either country; the feed holds up to MaxRows items, with   *)
(* and without a latitude.  Every number in them is finite.                *)
(***************************************************************************)
LoaderRows ==
    { c \in RowCells : /\ c.name = Quoted(<<"A">>)
                       /\ c.coordinates = <<<<"4", "5", ".", "5">>, <<"-", "7", "5", ".", "5">>>>
                       /\ c.capacity = <<"1", "0", "0", ".", "0">> }

RECURSIVE LoaderRowLists(_)
LoaderRowLists(n) ==
    IF n = 0 THEN { <<>> }
    ELSE LET shorter == LoaderRowLists(n - 1) IN
         shorter \cup { Append(l, c) : l \in { s \in shorter : Len(s) = n - 1 },
                                       c \in LoaderRows }

LoaderHeaderOrder == <<"name", "country", "lat", "lon", "cap", "src">>

CsvAnswers(type) ==
    { Rejects, Broken, NotFound }
        \cup { Response(TRUE, CsvText(LoaderHeaderOrder, type, rows)) :
                   rows \in LoaderRowLists(MaxRows) }

LoaderItems ==
    { i \in EIAItems : /\ i.plantid = 1
                       /\ i.latitude \in { Field(<<"4", "5", ".", "5">>), NoField }
                       /\ i.nameplate = Field(<<"1", "0", "0", ".", "5">>)
                       /\ i.netSummer = Field(<<"8", "0", ".", "4">>) }

RECURSIVE LoaderItemLists(_)
LoaderItemLists(n) ==
    IF n = 0 THEN { <<>> }
    ELSE LET shorter == LoaderItemLists(n - 1) IN
         shorter \cup { Append(l, c) : l \in { s \in shorter : Len(s) = n - 1 },
                                       c \in LoaderItems }

JsonBody(json, items) == [json |-> json, items |-> items]

\* the answers to the request of /data/3.json
FeedAnswers ==
    { Rejects, Broken, Response(FALSE, JsonBody("notJson", <<>>)),
      Response(TRUE, JsonBody("notJson", <<>>)),
      Response(TRUE, JsonBody("noData", <<>>)) }
        \cup { Response(TRUE, JsonBody("feed", items)) : items \in LoaderItemLists(MaxRows) }

\* the answers to the request of /data/eia_aggregated_plant_capacity.json
ArrayAnswers ==
    { Rejects, Broken, Response(FALSE, JsonBody("notJson", <<>>)),
      Response(TRUE, JsonBody("notJson", <<>>)),
      Response(TRUE, JsonBody("noData", <<>>)) }
        \cup { Response(TRUE, JsonBody("array", items)) : items \in LoaderItemLists(MaxRows) }

\* the elements of items at the positions in S, in order
RECURSIVE Pick(_, _, _)
Pick(items, S, i) ==
    IF i > Len(items) THEN <<>>
    ELSE (IF i \in S THEN <<items[i]>> ELSE <<>>) \o Pick(items, S, i + 1)

\* What loadLargeJsonData can do on a body: reject, or resolve after it
\* handed some of the body's items, in order, to the processor (which ones
\* is the streaming parser's matter).  It is not called unless the first
\* request was answered with an OK response.
StreamsOf(response) ==
    IF response.kind = "rejects" \/ ~response.ok THEN { NoStream }
    ELSE IF response.kind = "response" /\ response.body.json = "array"
    THEN { StreamRejects }
            \cup { StreamDelivers(Pick(response.body.items, S, 1)) :
                       S \in SUBSET (1..Len(response.body.items)) }
    ELSE { StreamRejects, StreamDelivers(<<>>) }

(***************************************************************************)
(* Actions of the loaders.                                                 *)
(***************************************************************************)
\* One call of loadAndProcessAllPowerPlants(), awaited to its end.  It
\* reads and writes neither the cache nor the clock, so it is taken on the
\* untouched cache only: on any other it does the same.
LoadAndProcessAll(large, renewable, eia, withEIA) ==
    /\ lpc = "idle"
    /\ now = 0
    /\ \A k \in StorageKeys : ~store[k].present
    /\ \E attempt \in { TryLoadAndProcessAll(large, renewable, eia, withEIA) } :
          /\ loaded' = loadAndProcessAllPowerPlants(attempt)
          /\ nFetches' = attempt.fetches
    /\ sources' = [large |-> large, renewable |-> renewable, eia |-> eia,
                   withEIA |-> withEIA, stream |-> NoStream]
    /\ lpc' = "all"
    /\ UNCHANGED cacheVars
    /\ UNCHANGED notLoaderVars

\* one call of loadEIADataEfficiently(), awaited to its end
LoadEIADataEfficiently(response, stream) ==
    /\ lpc = "idle"
    /\ cpc = "idle"
    /\ \E r \in { loadEIADataEfficiently(store, now, response, stream) },
          w \in { written[EIA_DATA_CACHE_KEY] } :
          /\ loaded' = r.loaded
          /\ store' = r.store
          /\ nFetches' = r.fetches
          /\ written' = IF r.wrote
                        THEN [written EXCEPT ![EIA_DATA_CACHE_KEY] =
                                 [ok |-> TRUE, value |-> r.loaded.plants, time |-> now]]
                        ELSE IF w.ok /\ now - w.time > CACHE_DURATION
                        THEN [written EXCEPT ![EIA_DATA_CACHE_KEY] = NoWrite]
                        ELSE written
    /\ sources' = [NoSources EXCEPT !.eia = response, !.stream = stream]
    /\ lpc' = "eia"
    /\ UNCHANGED <<cpc, now, nTicks, call>>
    /\ UNCHANGED notLoaderVars

\* the caller has taken the list; a loader may be called again
LoaderReturn ==
    /\ lpc # "idle"
    /\ lpc' = "idle"
    /\ sources' = NoSources
    /\ loaded' = NotLoaded
    /\ nFetches' = 0
    /\ UNCHANGED cacheVars
    /\ UNCHANGED notLoaderVars

\* the loaders on a network that fails in every way, beside a cache that
\* loadEIADataEfficiently fills, that ages and that gets damaged
NextLoader ==
    \/ \E large \in CsvAnswers("large"), renewable \in CsvAnswers("renewable") :
          \/ LoadAndProcessAll(large, renewable, NoAnswer, FALSE)
          \/ \E eia \in FeedAnswers : LoadAndProcessAll(large, renewable, eia, TRUE)
    \/ \E response \in ArrayAnswers :
          \E stream \in StreamsOf(response) : LoadEIADataEfficiently(response, stream)
    \/ LoaderReturn
    \/ Tick(CACHE_DURATION + 1)
    \/ TamperPayload(EIA_DATA_CACHE_KEY, "cut")

SpecLoader == Init /\ [][NextLoader]_vars

(***************************************************************************)
(* Proximity.  A coordinate is <<longitude, latitude>> in whole degrees;   *)
(* distances are in hundredths of a mile.  The points and the corners of   *)
(* the lines lie on even longitudes between 0 and 4 and latitudes 60 and   *)
(* 62, where every segment is parallel to an axis or diagonal, so that the *)
(* projection of a point on a segment falls on a whole degree.             *)
(***************************************************************************)
\* calculateDistance between latitudes 60..62 at longitudes 0..4 degrees
\* apart: the Haversine formula with R = 3958.8, in hundredths of a mile
\* rounded down, by first latitude, second latitude and longitude difference
HaversineTable ==
    << <<<<0, 3454, 6909, 10363, 13816>>,
         <<6909, 7701, 9696, 12323, 15259>>,
         <<13818, 14218, 15355, 17082, 19241>>>>,
       <<<<6909, 7701, 9696, 12323, 15259>>,
         <<0, 3349, 6699, 10048, 13396>>,
         <<6909, 7655, 9549, 12063, 14884>>>>,
       <<<<13818, 14218, 15355, 17082, 19241>>,
         <<6909, 7655, 9549, 12063, 14884>>,
         <<0, 3243, 6487, 9730, 12973>>>> >>

\* calculateDistance(coord1, coord2)
calculateDistance(coord1, coord2) ==
    HaversineTable[coord1[2] - 59][coord2[2] - 59][Abs(coord2[1] - coord1[1]) + 1]

\* distanceToLineSegment of the first text of part_016: the distance to the
\* nearer end of the segment
distanceToLineSegmentByEnds(point, lineStart, lineEnd) ==
    With(calculateDistance(point, lineStart), LAMBDA distanceToStart :
    With(calculateDistance(point, lineEnd), LAMBDA distanceToEnd :
         IF distanceToStart <= distanceToEnd THEN distanceToStart ELSE distanceToEnd))

\* distanceToLineSegment of the second text of part_016: the distance to
\* the projection of the point on the segment, in the plane of the degrees;
\* param = dot / len_sq is compared with 0 and 1 through dot and len_sq
distanceToLineSegmentByProjection(point, lineStart, lineEnd) ==
    LET A == point[1] - lineStart[1]
        B == point[2] - lineStart[2]
        C == lineEnd[1] - lineStart[1]
        D == lineEnd[2] - lineStart[2]
        dot == A * C + B * D
        len_sq == C * C + D * D IN
    IF len_sq = 0 \/ dot < 0 THEN calculateDistance(point, lineStart)
    ELSE IF dot > len_sq THEN calculateDistance(point, lineEnd)
    ELSE calculateDistance(point, <<lineStart[1] + (dot * C) \div len_sq,
                                    lineStart[2] + (dot * D) \div len_sq>>)

\* distanceToLineSegment, in the text of geoUtils the build holds
distanceToLineSegment(approximate, point, lineStart, lineEnd) ==
    IF approximate THEN distanceToLineSegmentByEnds(point, lineStart, lineEnd)
    ELSE distanceToLineSegmentByProjection(point, lineStart, lineEnd)

WithinDistanceExclusive(distance, maxDistance) == distance < maxDistance

\* if (distance <= maxDistance)
WithinDistance(distance, maxDistance) == distance <= maxDistance

\* the for loop of isPointNearLine from segment i on: [near, evaluated],
\* evaluated the number of segments whose distance was computed
RECURSIVE NearFrom(_, _, _, _, _)
NearFrom(approximate, point, line, maxDistance, i) ==
    IF i > Len(line) - 1 THEN [near |-> FALSE, evaluated |-> i - 1]
    ELSE IF WithinDistance(distanceToLineSegment(approximate, point, line[i], line[i + 1]),
                           maxDistance)
    THEN [near |-> TRUE, evaluated |-> i]
    ELSE NearFrom(approximate, point, line, maxDistance, i + 1)

\* isPointNearLine(point, line, maxDistance)
isPointNearLine(approximate, point, line, maxDistance) ==
    NearFrom(approximate, point, line, maxDistance, 1)

\* the item createLineIndex inserts for the segment from start to end
LineSegment(start, end) ==
    [minX |-> IF start[1] <= end[1] THEN start[1] ELSE end[1],
     minY |-> IF start[2] <= end[2] THEN start[2] ELSE end[2],
     maxX |-> IF start[1] >= end[1] THEN start[1] ELSE end[1],
     maxY |-> IF start[2] >= end[2] THEN start[2] ELSE end[2],
     segment |-> <<start, end>>]

\* the inner loop of createLineIndex over the coordinates of one line
SegmentsOf(coordinates) ==
    [i \in 1..(IF Len(coordinates) > 0 THEN Len(coordinates) - 1 ELSE 0) |->
        LineSegment(coordinates[i], coordinates[i + 1])]

\* createLineIndex(lines): the items inserted, line after line
RECURSIVE createLineIndex(_)
createLineIndex(ls) ==
    IF ls = <<>> THEN <<>>
    ELSE SegmentsOf(Head(ls)) \o createLineIndex(Tail(ls))

\* index.search(searchArea) for the window of queryLineIndex: the box of
\* the item meets the square of half-width distance / 69 degrees around the
\* point; both sides are multiplied by 6900, distance being in hundredths
InSearchArea(item, point, distance) ==
    /\ item.minX * 6900 <= point[1] * 6900 + distance
    /\ item.minY * 6900 <= point[2] * 6900 + distance
    /\ item.maxX * 6900 >= point[1] * 6900 - distance
    /\ item.maxY * 6900 >= point[2] * 6900 - distance

\* queryLineIndex(index, point, distance): the segments of the items found
queryLineIndex(index, point, distance) ==
    With(SelectSeq(index, LAMBDA item : InSearchArea(item, point, distance)),
         LAMBDA results : [k \in 1..Len(results) |-> results[k].segment])

\* the nearby filter of filteredPowerPlants: some candidate segment tests near
PassesNearbyFilter(approximate, nearbySegments, point, distance) ==
    \E k \in 1..Len(nearbySegments) :
       isPointNearLine(approximate, point, nearbySegments[k], distance).near

\* the coordinates of the model
GridPoints == { <<0, 60>>, <<2, 60>>, <<4, 60>>, <<2, 62>> }

\* the lines of the model: no point, one point, one segment, two segments
Lines ==
    { <<>> } \cup { <<a>> : a \in GridPoints }
        \cup { <<a, b>> : a \in GridPoints, b \in GridPoints }
        \cup { <<a, b, c>> : a \in GridPoints, b \in GridPoints, c \in GridPoints }

\* the lists of up to n lines
RECURSIVE LineLists(_)
LineLists(n) ==
    IF n = 0 THEN { <<>> }
    ELSE LET shorter == LineLists(n - 1) IN
         shorter \cup { Append(l, c) : l \in { s \in shorter : Len(s) = n - 1 },
                                       c \in Lines }

\* the proximity distances, in hundredths of a mile: 0, 10 and 100 miles
Distances == {0, 1000, 10000}

(***************************************************************************)
(* Actions of proximity.                                                   *)
(***************************************************************************)
\* isPointNearLine(point, line, maxDistance) called on a whole line
IsPointNearLine(approximate, point, line, maxDistance) ==
    /\ gpc = "idle"
    /\ \E r \in { isPointNearLine(approximate, point, line, maxDistance) } :
          nearby' = [NoTest EXCEPT !.op = "isPointNearLine", !.approximate = approximate,
                                   !.point = point, !.line = line,
                                   !.maxDistance = maxDistance, !.near = r.near,
                                   !.evaluated = r.evaluated]
    /\ gpc' = "tested"
    /\ UNCHANGED <<allLines, lineIndex>>
    /\ UNCHANGED notGeoVars

\* the lines are loaded: createLineIndex(allLines)
CreateLineIndex(ls) ==
    /\ gpc = "idle"
    /\ allLines' = ls
    /\ lineIndex' = createLineIndex(ls)
    /\ gpc' = "indexed"
    /\ UNCHANGED nearby
    /\ UNCHANGED notGeoVars

\* the nearby filter of filteredPowerPlants for one plant
FilterNearby(approximate, point, distance) ==
    /\ gpc = "indexed"
    /\ \E nearbySegments \in { queryLineIndex(lineIndex, point, distance) } :
          nearby' = [NoTest EXCEPT !.op = "filter", !.approximate = approximate,
                                   !.point = point, !.maxDistance = distance,
                                   !.candidates = nearbySegments,
                                   !.near = PassesNearbyFilter(approximate, nearbySegments,
                                                               point, distance)]
    /\ gpc' = "filtered"
    /\ UNCHANGED <<allLines, lineIndex>>
    /\ UNCHANGED notGeoVars

\* the caller has taken the answer
ProximityReturn ==
    /\ gpc \in {"tested", "filtered"}
    /\ gpc' = IF gpc = "tested" THEN "idle" ELSE "indexed"
    /\ nearby' = NoTest
    /\ UNCHANGED <<allLines, lineIndex>>
    /\ UNCHANGED notGeoVars

\* the lines are loaded anew: the index is dropped
DropLineIndex ==
    /\ gpc = "indexed"
    /\ gpc' = "idle"
    /\ allLines' = <<>>
    /\ lineIndex' = <<>>
    /\ UNCHANGED nearby
    /\ UNCHANGED notGeoVars

NextProximity ==
    \/ /\ gpc = "idle"
       /\ \E approximate \in BOOLEAN, point \in GridPoints, line \in Lines,
             maxDistance \in Distances :
             IsPointNearLine(approximate, point, line, maxDistance)
    \/ /\ gpc = "idle"
       /\ \E ls \in LineLists(MaxLines) : CreateLineIndex(ls)
    \/ \E approximate \in BOOLEAN, point \in GridPoints, distance \in Distances :
          FilterNearby(approximate, point, distance)
    \/ ProximityReturn
    \/ DropLineIndex

SpecProximity == Init /\ [][NextProximity]_vars

(***************************************************************************)
(* Properties of the streaming parser.                                     *)
(***************************************************************************)
\* C1: when the stream carried a well-formed JSON array and the parse has
\* completed, the items passed to onItem are the elements that parsing the
\* whole text yields: same items, same order, same length.
C1_StreamingEqualsWholeBuffer ==
    (ppc = "complete" /\ JsonIsArray(doc)) => delivered = WholeBufferParse(doc)

\* The structure of a text read once from left to right, every character
\* seen exactly once: the top-level commas (those directly inside the outer
\* array, outside string literals) and the positions at which a top-level
\* element closes (the brace that returns to the array, or the character
\* before a top-level comma).
RECURSIVE StructureFrom(_, _, _, _, _)
StructureFrom(s, i, inStr, esc, depth) ==
    IF i > Len(s) THEN [closes |-> {}, commas |-> {}]
    ELSE IF esc THEN StructureFrom(s, i + 1, inStr, FALSE, depth)
    ELSE IF inStr
         THEN StructureFrom(s, i + 1, s[i] # "\"", s[i] = "\\", depth)
    ELSE IF s[i] = "\"" THEN StructureFrom(s, i + 1, TRUE, FALSE, depth)
    ELSE IF s[i] \in {"[", "{"} THEN StructureFrom(s, i + 1, FALSE, FALSE, depth + 1)
    ELSE IF s[i] \in {"]", "}"}
         THEN With(StructureFrom(s, i + 1, FALSE, FALSE, depth - 1),
                   LAMBDA r : IF s[i] = "}" /\ depth = 2
                              THEN [r EXCEPT !.closes = @ \cup {i}]
                              ELSE r)
    ELSE IF s[i] = "," /\ depth = 1
         THEN With(StructureFrom(s, i + 1, FALSE, FALSE, depth),
                   LAMBDA r : [closes |-> r.closes \cup {i - 1},
                               commas |-> r.commas \cup {i}])
    ELSE StructureFrom(s, i + 1, FALSE, FALSE, depth)

ElementCloses(s) == StructureFrom(s, 1, FALSE, FALSE, 0).closes

RECURSIVE Ascending(_)
Ascending(S) ==
    IF S = {} THEN <<>>
    ELSE With(CHOOSE m \in S : \A x \in S : m <= x,
              LAMBDA m : <<m>> \o Ascending(S \ {m}))

\* the texts of the elements of an array text "[ e1 , e2 , ... ]"
ElementTexts(s) ==
    With(<<1>> \o Ascending(StructureFrom(s, 1, FALSE, FALSE, 0).commas) \o <<Len(s)>>,
         LAMBDA cuts : [k \in 1..(Len(cuts) - 1) |->
                           SubSeq(s, cuts[k] + 1, cuts[k + 1] - 1)])

\* the subsequence of the items of `texts` from index i on that parse
RECURSIVE WellFormedFrom(_, _)
WellFormedFrom(texts, i) ==
    IF i > Len(texts) THEN <<>>
    ELSE IF JsonParses(texts[i])
         THEN <<JsonValue(texts[i])>> \o WellFormedFrom(texts, i + 1)
         ELSE WellFormedFrom(texts, i + 1)

\* the number of characters of doc read from the stream so far
Received == Len(doc) - Len(rest)

\* C11: onItem is called with the indices 0, 1, 2, ... (itemIndex counts the
\* calls), each delivered item lies later in the document than the one
\* before it, and the count given to onComplete and the number
\* loadLargeJsonData resolves with both equal the number of onItem calls.
C11_ItemsInOrderAndCounted ==
    /\ itemIndex = Len(delivered)
    /\ \A i, j \in 1..Len(marks) : i < j => marks[i].end <= marks[j].start
    /\ ppc = "complete" => completeArg = Len(delivered)
    /\ promise.state = "resolved" => promise.value = Len(delivered)

\* C12: every item boundary parseJsonArrayStream reports lies where a
\* top-level element of the document closes; a comma or a brace inside a
\* string value, an escaped quote and the braces of a nested object never
\* end an item.
C12_BoundariesAreElementCloses ==
    \A k \in 1..Len(marks) : marks[k].end \in ElementCloses(doc)

\* C13: when the whole array was streamed and one of its elements does not
\* parse, onError is not called, onComplete is called once, every
\* well-formed element after the malformed one has been delivered, in
\* order, and the final count does not include the skipped element.
C13_MalformedElementSkipped ==
    (ppc = "complete" /\ doc \in Docs) =>
        With(ElementTexts(doc),
             LAMBDA texts :
                \A b \in 1..Len(texts) :
                    ~JsonParses(texts[b]) =>
                        With(WellFormedFrom(texts, b + 1),
                             LAMBDA later :
                                /\ nError = 0 /\ nComplete = 1
                                /\ completeArg = Len(delivered)
                                /\ Len(later) <= Len(delivered)
                                /\ later = SubSeq(delivered,
                                                  Len(delivered) - Len(later) + 1,
                                                  Len(delivered))))

\* C14: when the stream ends (read returns done) before the closing
\* bracket of the array has been seen, onComplete is called exactly once,
\* with the number of items delivered so far, and onError is not called.
C14_StreamEndReportsCount ==
    [][(ppc = "reading" /\ ppc' = "complete" /\ nReads' = nReads) =>
          (nComplete' = 1 /\ completeArg' = Len(delivered') /\ nError' = 0)]_vars

\* a stream that ended inside the array, after an item had been delivered
C14_Witness ==
    /\ ppc = "complete" /\ doc # <<>> /\ doc[Len(doc)] # "]"
    /\ Len(delivered) >= 1 /\ completeArg = Len(delivered)

\* C15: a response without a body makes parseJsonArrayStream call onError
\* once, before any read, with no onItem and no onComplete call; a failed
\* read makes it call onError once and never onComplete; in both cases the
\* promise of the load is rejected, as it is when loadLargeJsonData itself
\* finds no body.
C15_NoBodyOrReadFailureIsOneError ==
    /\ ppc = "error" =>
          (nError = 1 /\ nComplete = 0 /\ promise.state = "rejected")
    /\ (ppc = "error" /\ doc = <<>>) => (nReads = 0 /\ delivered = <<>>)
    /\ ppc = "unparsed" => (promise.state = "rejected" /\ nComplete = 0)
    /\ nError <= 1

\* a read failed after an item had been delivered
C15_Witness ==
    ppc = "error" /\ nReads >= 1 /\ Len(delivered) >= 1 /\ promise.state = "rejected"

\* C16: whenever parseJsonArrayStream waits for the next chunk, no element
\* whose close has been received is still in the buffer: the buffer holds at
\* most the text of one incomplete element.
C16_BufferHoldsNoCompleteElement ==
    (ppc = "reading" /\ nReads >= 1) =>
        \A e \in ElementCloses(doc) :
            ~(Received - Len(buffer) < e /\ e <= Received)

(***************************************************************************)
(* Properties of the aggregation.                                          *)
(***************************************************************************)
RECURSIVE SumOutputWithKey(_, _, _, _)
SumOutputWithKey(h, list, key, i) ==
    IF i > Len(list) THEN 0
    ELSE (IF AggregationKey(h[list[i]]) = key THEN h[list[i]].output ELSE 0)
         + SumOutputWithKey(h, list, key, i + 1)

RECURSIVE TotalOutput(_, _)
TotalOutput(facilities, i) ==
    IF i > Len(facilities) THEN 0
    ELSE facilities[i].output + TotalOutput(facilities, i + 1)

\* C3: every facility returned by aggregatePowerPlants has the sum of the
\* outputs of the input facilities sharing its aggregation key, and the
\* total output of the result is the total output of the input.
C3_CapacityIsSumOfConstituents ==
    apc # "build" =>
        /\ \A i \in 1..Len(out1) :
              out1[i].output =
                 SumOutputWithKey(heap0, plants, AggregationKey(heap0[result1[i]]), 1)
        /\ TotalOutput(out1, 1) = TotalOutput(Deref(heap0, plants), 1)

\* a list holding a 100.0 MW and a 50.0 MW record of one place has been
\* aggregated into a facility of 150.0 MW
C3_Witness ==
    /\ apc = "once"
    /\ \E i, j \in 1..Len(plants) :
          /\ i < j
          /\ heap0[plants[i]].output = 1000 /\ heap0[plants[j]].output = 500
          /\ AggregationKey(heap0[plants[i]]) = AggregationKey(heap0[plants[j]])
    /\ \E k \in 1..Len(out1) : out1[k].output = 1500

\* C4: aggregating the list aggregatePowerPlants returned gives that list
\* again: same facilities in the same order, with the same outputs, display
\* strings and capacity factors.
C4_AggregationIdempotent ==
    apc = "twice" => (result2 = result1 /\ out2 = out1)

\* the second aggregation ran on a result in which facilities had been merged
C4_Witness ==
    /\ apc = "twice"
    /\ Len(plants) = MaxPlants
    /\ Len(result1) = 2
    /\ \E k \in 1..Len(out1) : out1[k].capacityFactor.def /\ out1[k].capacityFactor.den # 1

\* the triple a facility is identified by: the lowercased name, the
\* coordinates rounded to 4 decimals (as numbers of 1e-4 degrees) and the
\* country
Rounded4(x) == (IF x < 0 THEN -1 ELSE 1) * ((Abs(x) + 5) \div 10)

KeyTriple(plant) ==
    <<ToLowerCase(plant.name), Rounded4(plant.coordinates[1]),
      Rounded4(plant.coordinates[2]), plant.country>>

KeyTriples(facilities) == [i \in 1..Len(facilities) |-> KeyTriple(facilities[i])]

\* a sequence without the repetitions of earlier members
RECURSIVE FirstOccurrences(_, _)
FirstOccurrences(seq, i) ==
    IF i > Len(seq) THEN <<>>
    ELSE IF \E j \in 1..(i - 1) : seq[j] = seq[i]
         THEN FirstOccurrences(seq, i + 1)
         ELSE <<seq[i]>> \o FirstOccurrences(seq, i + 1)

\* C17: the facilities aggregatePowerPlants returns are one per distinct
\* triple (lowercased name, rounded coordinates, country) of the input, in
\* the order in which the triples first occur: facilities with different
\* triples are never merged, facilities with the same triple always are.
C17_OneFacilityPerTripleInFirstSeenOrder ==
    apc # "build" =>
        KeyTriples(out1) = FirstOccurrences(KeyTriples(Deref(heap0, plants)), 1)

\* the constituents of the facility with the given key: the input
\* facilities, as they were before the call, that share it
RECURSIVE Constituents(_, _, _, _)
Constituents(h, list, key, i) ==
    IF i > Len(list) THEN <<>>
    ELSE IF AggregationKey(h[list[i]]) = key
         THEN <<h[list[i]]>> \o Constituents(h, list, key, i + 1)
         ELSE Constituents(h, list, key, i + 1)

\* sum of output * capacityFactor over facilities, as a fraction [num, den]
RECURSIVE WeightedSum(_, _)
WeightedSum(facilities, i) ==
    IF i > Len(facilities) THEN [num |-> 0, den |-> 1]
    ELSE With(WeightedSum(facilities, i + 1),
              LAMBDA acc :
                 [num |-> acc.num * facilities[i].capacityFactor.den
                            + facilities[i].output * facilities[i].capacityFactor.num
                              * acc.den,
                  den |-> acc.den * facilities[i].capacityFactor.den])

CapacityWeightedAverage(facilities) ==
    With(WeightedSum(facilities, 1),
         LAMBDA total : Frac(total.num, total.den * TotalOutput(facilities, 1)))

\* C18: a facility whose constituents all carry a capacity factor has their
\* capacity-weighted average (for two of them: (c1*f1 + c2*f2) / (c1 + c2)
\* with the capacities before the merge); one with two constituents of
\* which one carries a factor has that factor unchanged; one whose
\* constituents carry none has none.
C18_CapacityFactorIsWeightedAverage ==
    apc = "once" =>
        \A k \in 1..Len(out1) :
            With(Constituents(heap0, plants, AggregationKey(heap0[result1[k]]), 1),
                 LAMBDA parts :
                    /\ (\A i \in 1..Len(parts) : parts[i].capacityFactor.def)
                          => out1[k].capacityFactor = CapacityWeightedAverage(parts)
                    /\ (\A i \in 1..Len(parts) : ~parts[i].capacityFactor.def)
                          => ~out1[k].capacityFactor.def
                    /\ (Len(parts) = 2 /\ parts[1].capacityFactor.def
                          /\ ~parts[2].capacityFactor.def)
                          => out1[k].capacityFactor = parts[1].capacityFactor
                    /\ (Len(parts) = 2 /\ ~parts[1].capacityFactor.def
                          /\ parts[2].capacityFactor.def)
                          => out1[k].capacityFactor = parts[2].capacityFactor)

\* three records with factors 100, 40 and 100 at 100.0, 25.5 and 100.0 MW
\* have been merged into one facility of 225.5 MW
C18_Witness ==
    /\ apc = "once"
    /\ \E k \in 1..Len(out1) :
          /\ out1[k].output = 2255
          /\ out1[k].capacityFactor = Frac(2 * 1000 * 100 + 255 * 40, 2255)

\* C30: aggregatePowerPlants leaves the facilities of its input list as
\* they were (output, display string, capacity factor, seasonal capacities
\* and original fields), so that a second call on the same list returns
\* facilities equal to those of the first.
C30_InputFacilitiesUnchanged ==
    apc = "once" =>
       /\ \A i \in 1..Len(plants) : heap[plants[i]] = heap0[plants[i]]
       /\ With(aggregatePowerPlants(heap, plants), LAMBDA r :
               Deref(r.heap, r.refs) = out1)

\* the run of parseJsonArrayStream over the text d delivered as one chunk
OneChunkRun(d) == ProcessBuffer(d, ScanInit, 0, <<>>, <<>>)

\* C29: the items delivered to onItem and the final count depend on the
\* text of the stream only: a run over any division of the text into
\* chunks ends with the items and the count of the run over one chunk.
C29_ChunkingDoesNotMatter ==
    ppc = "complete" =>
       With(OneChunkRun(doc), LAMBDA one :
            /\ delivered = one.delivered
            /\ completeArg = one.itemIndex)

(***************************************************************************)
(* Properties of ingestion.                                                *)
(***************************************************************************)
\* a coordinate (in 1e-5 degrees) is a finite number of magnitude <= limit degrees
CoordinateInRange(x, limit) ==
    x.kind = "num" /\ x.v >= -(limit * 100000) /\ x.v <= limit * 100000

\* C2: every facility returned by parsePowerPlantCSV, parseEIAData or
\* transformEIADataToPowerPlants has a finite longitude in [-180,180], a
\* finite latitude in [-90,90] and a capacity strictly greater than 0.
C2_IngestedFacilitiesValid ==
    \A k \in 1..Len(ingested) :
        /\ CoordinateInRange(ingested[k].coordinates[1], 180)
        /\ CoordinateInRange(ingested[k].coordinates[2], 90)
        /\ ingested[k].output.kind = "num"
        /\ ingested[k].output.v > 0

\* The value of a quoted field whose opening quote is before position i: a
\* doubled quote stands for one quote character, a single quote closes the
\* field.  [value, next], next the position after the closing quote.
RECURSIVE QuotedFieldFrom(_, _, _)
QuotedFieldFrom(line, i, value) ==
    IF i > Len(line) THEN [value |-> value, next |-> i]
    ELSE IF line[i] # "\"" THEN QuotedFieldFrom(line, i + 1, Append(value, line[i]))
    ELSE IF i < Len(line) /\ line[i + 1] = "\""
    THEN QuotedFieldFrom(line, i + 2, Append(value, "\""))
    ELSE [value |-> value, next |-> i + 1]

\* the value of an unquoted field from position i, up to the next comma
RECURSIVE PlainFieldFrom(_, _, _)
PlainFieldFrom(line, i, value) ==
    IF i > Len(line) \/ line[i] = "," THEN [value |-> value, next |-> i]
    ELSE PlainFieldFrom(line, i + 1, Append(value, line[i]))

\* the field values of a data row, read field by field from position i
RECURSIVE FieldValuesFrom(_, _)
FieldValuesFrom(line, i) ==
    With(IF i <= Len(line) /\ line[i] = "\"" THEN QuotedFieldFrom(line, i + 1, <<>>)
         ELSE PlainFieldFrom(line, i, <<>>), LAMBDA f :
    IF f.next > Len(line) THEN <<f.value>>
    ELSE <<f.value>> \o FieldValuesFrom(line, f.next + 1))

\* the data row a facility of parsePowerPlantCSV was made from
DataRowOf(plant) == Split(sourcePayload.text, "\n")[plant.id[3] + 1]

\* C21: a quoted field that contains commas is kept as one field, and every
\* doubled quote inside a quoted field is one quote character of the value
\* stored for the field, wherever in the field it stands: the values a
\* facility keeps of its row are the field values of the row.
C21_QuotedFieldsKeepCommasAndQuotes ==
    ipc = "csv" =>
       \A k \in 1..Len(ingested) :
          With(FieldValuesFrom(DataRowOf(ingested[k]), 1), LAMBDA values :
               /\ Len(values) = Len(ingested[k].rawData)
               /\ \A c \in 1..Len(values) : ingested[k].rawData[c] = values[c])

\* the value of the column called name in the field values of a row
ColumnValue(headers, values, name) ==
    values[CHOOSE c \in 1..Len(headers) : headers[c] = name]

\* a data row passes validation: it has a value for every column, its
\* coordinates are numbers and its capacity is a number greater than 0
PassesValidation(headers, values) ==
    /\ Len(values) >= Len(headers)
    /\ ~IsNaN(ParseFloat(ColumnValue(headers, values, StrLatitude), 5))
    /\ ~IsNaN(ParseFloat(ColumnValue(headers, values, StrLongitude), 5))
    /\ GreaterThanZero(ParseFloat(RemoveCommas(ColumnValue(headers, values,
                                                           StrTotalCapacity)), 1))

\* C22: every data row that passes validation yields a facility of
\* parsePowerPlantCSV, with the country code CA when its Country field is
\* exactly Canada and US for any other value; no row is left out because
\* of its country.
C22_CountryCodeAndNoRowDropped ==
    ipc = "csv" =>
       With(Split(sourcePayload.text, "\n"), LAMBDA lines :
       With(ParseHeaders(lines[1]), LAMBDA headers :
           \A i \in 2..Len(lines) :
              With(FieldValuesFrom(lines[i], 1), LAMBDA values :
                   PassesValidation(headers, values) =>
                      \E k \in 1..Len(ingested) :
                         /\ ingested[k].id[3] = i - 1
                         /\ ingested[k].country =
                               (IF ColumnValue(headers, values, StrCountry) = StrCanada
                                THEN "CA" ELSE "US"))))

(***************************************************************************)
(* Properties of the cache.                                                *)
(***************************************************************************)
\* the entry stored under key parses but its payload does not decompress or
\* the decompressed text is no JSON
PayloadCorrupt(st, key) ==
    With(getCachedData(st, key), LAMBDA entry :
        /\ ~entry.isNull
        /\ With(LZStringDecompress(entry.data), LAMBDA decompressed :
               decompressed.isNull \/ ~JsonParses(decompressed.text)))

\* the entry stored under key is older than CACHE_DURATION at time
Expired(st, key, time) ==
    With(getCachedData(st, key), LAMBDA entry :
        ~entry.isNull /\ time - entry.metadata.timestamp > CACHE_DURATION)

\* the item stored under key is no JSON text
RecordUnreadable(st, key) ==
    /\ st[CACHE_PREFIX \o key].present
    /\ ~JsonParses(st[CACHE_PREFIX \o key].text)

\* the store, were the entry for data written under key at time, exceeds the quota
CannotHold(st, key, data, time) ==
    With(compressData(data), LAMBDA compressedData :
        StorageSize([st EXCEPT ![CACHE_PREFIX \o key] =
            Stored(StringifyEntry(
                [isNull |-> FALSE,
                 metadata |-> [timestamp |-> time, version |-> DEFAULT_VERSION,
                               size |-> Len(JsonStringify(data)),
                               compressedSize |-> Len(compressedData),
                               compressed |-> TRUE],
                 data |-> compressedData]))]) > Quota)

TtlReads == {"CableCache.get", "getCachedEIAData"}

\* C5: when the payload of the stored entry no longer decompresses or
\* deserializes, getDecompressedData(key) returns null and removes the entry,
\* so that getCachedData(key) then returns null.
C5_CorruptPayloadEvicted ==
    (cpc = "returned" /\ call.op = "getDecompressedData"
         /\ PayloadCorrupt(call.before, call.key))
        => /\ call.value = NullValue
           /\ ~store[CACHE_PREFIX \o call.key].present
           /\ getCachedData(store, call.key).isNull

C5_Witness ==
    /\ cpc = "returned" /\ call.op = "getDecompressedData"
    /\ PayloadCorrupt(call.before, call.key)
    /\ ~LZStringDecompress(getCachedData(call.before, call.key).data).isNull

\* C6: isCacheValid(entry, maxAgeMs) is true exactly when now minus
\* entry.metadata.timestamp is at most maxAgeMs, and it leaves the store as
\* it was.
C6_ValidIffWithinMaxAge ==
    (cpc = "returned" /\ call.op = "isCacheValid")
        => /\ call.ok <=> (now - call.entry.metadata.timestamp <= call.maxAgeMs)
           /\ store = call.before

C6_Witness ==
    /\ cpc = "returned" /\ call.op = "isCacheValid"
    /\ call.maxAgeMs = CACHE_DURATION
    /\ now - call.entry.metadata.timestamp = CACHE_DURATION
    /\ call.ok

\* C7: CableCache.get and getCachedEIAData return null when the stored
\* entry is older than CACHE_DURATION.
C7_ExpiredNeverServed ==
    (cpc = "returned" /\ call.op \in TtlReads /\ Expired(call.before, call.key, now))
        => call.value = NullValue

C7_Witness ==
    /\ cpc = "returned" /\ call.op = "CableCache.get"
    /\ Expired(call.before, call.key, now)
    /\ now - getCachedData(call.before, call.key).metadata.timestamp
           = CACHE_DURATION + 1

\* C8: after a read that finds the entry expired (CableCache.get,
\* getCachedEIAData), unreadable (getCachedData, getDecompressedData) or
\* corrupt (getDecompressedData), the entry is no longer in the store.
C8_BadEntryGoneAfterRead ==
    (/\ cpc = "returned"
     /\ \/ call.op \in TtlReads /\ Expired(call.before, call.key, now)
        \/ call.op \in {"getCachedData", "getDecompressedData"}
               /\ RecordUnreadable(call.before, call.key)
        \/ call.op = "getDecompressedData" /\ PayloadCorrupt(call.before, call.key))
        => ~store[CACHE_PREFIX \o call.key].present

\* C9: when the store cannot hold the new entry, setCachedData returns false;
\* and whenever it returns false the store is as it was before the call,
\* with no test key in it.
C9_FailedSetLeavesStore ==
    (cpc = "returned" /\ call.op = "setCachedData")
        => /\ CannotHold(call.before, call.key, call.data, now) => ~call.ok
           /\ ~call.ok => (store = call.before /\ ~store[testKey].present)

C9_Witness ==
    /\ cpc = "returned" /\ call.op = "setCachedData" /\ ~call.ok
    /\ CannotHold(call.before, call.key, call.data, now)
    /\ call.before[CACHE_PREFIX \o call.key].present
    /\ getDecompressedData(store, call.key).value # NullValue
    /\ getDecompressedData(store, call.key).value # call.data

\* C10: from a setCachedData(key, v) that returned true until the entry is
\* overwritten or cleared, getDecompressedData(key) returns v and
\* getCachedData(key) returns metadata with the time of that write.
C10_SetGetRoundTrip ==
    \A key \in CacheKeys :
        written[key].ok
            => /\ \E r \in {getDecompressedData(store, key)} :
                      r.value = written[key].value /\ r.store = store
               /\ \E entry \in {getCachedData(store, key)} :
                      ~entry.isNull /\ entry.metadata.timestamp = written[key].time

C10_Witness ==
    /\ cpc = "returned" /\ call.op = "getDecompressedData"
    /\ written[call.key].ok /\ written[call.key].time > 0
    /\ call.value = ArrayValue(<< <<"a", "\"">> >>)
    /\ call.before = store

\* a key of localStorage in the namespace of the cache
HasCachePrefix(k) ==
    Len(k) >= Len(CACHE_PREFIX) /\ SubSeq(k, 1, Len(CACHE_PREFIX)) = CACHE_PREFIX

\* C23: clearCache(key) removes the entry of that key and leaves every
\* other stored key as it was; clearCache() removes every stored key with
\* the cache prefix and leaves the keys outside the namespace as they were.
C23_ClearRemovesExactlyItsKeys ==
    /\ (cpc = "returned" /\ call.op = "clearCache") =>
          \A k \in StorageKeys :
             store[k] = (IF k = CACHE_PREFIX \o call.key THEN Absent ELSE call.before[k])
    /\ (cpc = "returned" /\ call.op = "clearCacheAll") =>
          \A k \in StorageKeys :
             store[k] = (IF HasCachePrefix(k) THEN Absent ELSE call.before[k])

\* the entry stored under key before the call carries another version tag
\* than the one of the program
StoredUnderOtherVersion(key) ==
    With(getCachedData(call.before, key), LAMBDA entry :
         ~entry.isNull /\ entry.metadata.version # DEFAULT_VERSION)

\* C24: a read never returns an entry written under a version tag other
\* than the current one, DEFAULT_VERSION: the read answers null.
C24_OtherVersionNeverReturned ==
    /\ (cpc = "returned" /\ call.op \in {"getCachedData", "getDecompressedData"}
           /\ StoredUnderOtherVersion(call.key)) => ~call.ok
    /\ (cpc = "returned" /\ call.op = "CableCache.get"
           /\ StoredUnderOtherVersion(CACHE_KEY)) => ~call.ok
    /\ (cpc = "returned" /\ call.op = "getCachedEIAData"
           /\ StoredUnderOtherVersion(EIA_DATA_CACHE_KEY)) => ~call.ok

(***************************************************************************)
(* Properties of the loaders.                                              *)
(***************************************************************************)
\* the payload of a source was retrieved: the request was answered with an
\* OK response whose body could be read (and, for the feed, is the feed)
Retrieved(answer) ==
    /\ answer.kind = "response"
    /\ answer.ok

FeedRetrieved(answer) == Retrieved(answer) /\ answer.body.json = "feed"

\* the sources the variant of the last call asks for, as retrieved or not
SourcesRetrieved ==
    <<Retrieved(sources.large), Retrieved(sources.renewable)>>
        \o (IF sources.withEIA THEN <<FeedRetrieved(sources.eia)>> ELSE <<>>)

\* the facilities parsed from the sources that were retrieved
PlantsOfRetrieved ==
    (IF Retrieved(sources.large)
     THEN parsePowerPlantCSV(sources.large.body, "large", sources.withEIA) ELSE <<>>)
    \o (IF Retrieved(sources.renewable)
        THEN parsePowerPlantCSV(sources.renewable.body, "renewable", sources.withEIA)
        ELSE <<>>)
    \o (IF sources.withEIA /\ FeedRetrieved(sources.eia)
        THEN parseEIAData(sources.eia.body.items) ELSE <<>>)

\* C19: when exactly one of the sources loadAndProcessAllPowerPlants asks
\* for could not be retrieved and the others were, the list it returns is
\* the aggregation of the facilities of the retrieved sources (so not empty
\* when these hold a facility).
C19_OneFailedSourceLeavesTheOthers ==
    (/\ lpc = "all"
     /\ Cardinality({ k \in DOMAIN SourcesRetrieved : ~SourcesRetrieved[k] }) = 1)
        => /\ loaded.state = "resolved"
           /\ loaded.plants = AggregatedFacilities(PlantsOfRetrieved)

\* a JavaScript value that is a list: an array
IsList(value) ==
    \/ value.kind = "array"
    \/ value.kind = "json" /\ Len(value.text) > 0 /\ value.text[1] = "["

\* no source of the last call was reachable: every request it made was
\* rejected, and loadEIADataEfficiently found no usable cache entry either
NoSourceReachable ==
    \/ /\ lpc = "all"
       /\ sources.large.kind = "rejects"
    \/ /\ lpc = "eia"
       /\ ~loaded.cached
       /\ sources.eia.kind = "rejects"

\* C20: loadAndProcessAllPowerPlants and loadEIADataEfficiently never
\* reject: however the requests, the stream, the payloads and the cache
\* fail, the promise resolves with a list of facilities, and with the empty
\* list when no source was reachable.
C20_LoadersNeverReject ==
    /\ lpc = "all" =>
          /\ loaded.state = "resolved"
          /\ DOMAIN loaded.plants = 1..Len(loaded.plants)
    /\ lpc = "eia" =>
          /\ loaded.state = "resolved"
          /\ IsList(loaded.plants)
    /\ NoSourceReachable =>
          loaded.plants = (IF lpc = "all" THEN <<>> ELSE ArrayValue(<<>>))

\* loadEIADataEfficiently after its stream failed and the list it then
\* parsed from the response did not fit into the cache: it resolved with
\* that list, which holds a facility
C20_Witness ==
    /\ lpc = "eia"
    /\ sources.stream.kind = "rejects"
    /\ ~loaded.cached
    /\ loaded.state = "resolved"
    /\ loaded.plants.kind = "json"
    /\ ~store[CACHE_PREFIX \o EIA_DATA_CACHE_KEY].present

\* a second call of loadEIADataEfficiently, made right after the first one
\* has returned, on a network that answers nothing
SecondCall == loadEIADataEfficiently(store, now, Rejects, NoStream)

\* C28: a call of loadEIADataEfficiently that finds a valid entry returns
\* the cached list and fetches nothing; a call that finds none stores the
\* list it returns, so that a second call within the time-to-live returns
\* an equal list without fetching.
C28_CacheServesTheSecondCall ==
    lpc = "eia" =>
       /\ loaded.cached =>
             /\ nFetches = 0
             /\ written[EIA_DATA_CACHE_KEY].ok => loaded.plants = written[EIA_DATA_CACHE_KEY].value
       /\ ~loaded.cached =>
             With(SecondCall, LAMBDA second :
                  /\ second.loaded.cached
                  /\ second.fetches = 0
                  /\ second.loaded.plants = loaded.plants)

(***************************************************************************)
(* Properties of proximity.                                                *)
(***************************************************************************)
\* the consecutive pairs of the tested line within the distance of the point
NearPairs ==
    { i \in 1..(Len(nearby.line) - 1) :
         distanceToLineSegment(nearby.approximate, nearby.point,
                               nearby.line[i], nearby.line[i + 1]) <= nearby.maxDistance }

\* the number of consecutive pairs of the lines of a list
RECURSIVE PairCount(_)
PairCount(ls) ==
    IF ls = <<>> THEN 0
    ELSE (IF Len(Head(ls)) < 2 THEN 0 ELSE Len(Head(ls)) - 1) + PairCount(Tail(ls))

\* C25: isPointNearLine answers true exactly when some consecutive pair of
\* the line is within the distance (inclusive) of the point, and has then
\* computed the distances up to the first such pair only; a line of no or
\* one point tests false and adds no segment to the index.
C25_NearIffSomePairWithin ==
    /\ gpc = "tested" =>
          /\ nearby.near <=> NearPairs # {}
          /\ nearby.near => (nearby.evaluated \in NearPairs
                               /\ \A i \in NearPairs : nearby.evaluated <= i)
          /\ Len(nearby.line) < 2 => ~nearby.near
    /\ gpc \in {"indexed", "filtered"} =>
          /\ Len(lineIndex) = PairCount(allLines)
          /\ (\A k \in 1..Len(allLines) : Len(allLines[k]) < 2) => lineIndex = <<>>

\* a line of three points whose second pair is the first one within the
\* distance has tested near
C25_Witness ==
    /\ gpc = "tested" /\ nearby.near
    /\ Len(nearby.line) = 3 /\ nearby.evaluated = 2 /\ nearby.maxDistance = 0

\* q lies on the segment from a to b, an end included
OnSegment(q, a, b) ==
    /\ (b[1] - a[1]) * (q[2] - a[2]) = (b[2] - a[2]) * (q[1] - a[1])
    /\ (q[1] - a[1]) * (q[1] - b[1]) <= 0
    /\ (q[2] - a[2]) * (q[2] - b[2]) <= 0

\* the points of the tested line at whole degrees
PointsOfLine ==
    { q \in (0..4) \X (60..62) :
         \E i \in 1..(Len(nearby.line) - 1) : OnSegment(q, nearby.line[i], nearby.line[i + 1]) }

\* C26: a point that lies on a segment of the line, at an end or between
\* the ends, tests near at every distance from 0 on; a point farther than
\* the distance from every point of the line tests not near.
C26_DistanceToClosestPointOfSegment ==
    gpc = "tested" =>
       /\ nearby.point \in PointsOfLine => nearby.near
       /\ (\A q \in PointsOfLine : calculateDistance(nearby.point, q) > nearby.maxDistance)
             => ~nearby.near

\* C27: the nearby filter, which tests the candidates of queryLineIndex
\* only, answers as the test of the point against every line does.
C27_IndexFilterEqualsEveryLine ==
    gpc = "filtered" =>
       (nearby.near <=>
           \E k \in 1..Len(allLines) :
              isPointNearLine(nearby.approximate, nearby.point, allLines[k],
                              nearby.maxDistance).near)

====
